---- MODULE Spec2Model ----
(***************************************************************************)
(* The staking module of srml/staking/src/lib.rs as a state machine.       *)
(*                                                                         *)
(* State: the storage items of decl_storage! that the ledger manager, the *)
(* slashing path and the era counter read or write, plus the free          *)
(* balances and staking locks of the two currencies (Ring, Kton) and the   *)
(* timestamp.  Every extrinsic and hook is an operator from a state record *)
(* to a result [st, ret]; the actions draw the arguments from small sets.  *)
(***************************************************************************)
EXTENDS Integers, Sequences, FiniteSets, TLC

VARIABLES Bonded, Ledger, Payee, Validators, Nominators, NodeName, Stakers,
          Invulnerables, ForceEra, CurrentEra, RingPool, KtonPool,
          ValidatorCount, MinimumValidatorCount, CurrentElected, SlotStake,
          CurrentEraStartSessionIndex, EraSlashJournal,
          EpochIndex, CurrentEraTotalReward, CurrentEraPointsEarned,
          ringFree, ktonFree, ringLock, ktonLock, now, steps

vars == <<Bonded, Ledger, Payee, Validators, Nominators, NodeName, Stakers,
          Invulnerables, ForceEra, CurrentEra, RingPool, KtonPool,
          ValidatorCount, MinimumValidatorCount, CurrentElected, SlotStake,
          CurrentEraStartSessionIndex, EraSlashJournal,
          EpochIndex, CurrentEraTotalReward, CurrentEraPointsEarned,
          ringFree, ktonFree, ringLock, ktonLock, now, steps>>

(***************************************************************************)
(* Bounds of the model: the balances the accounts start with, the largest  *)
(* argument value, the caps on the counters, and the values the runtime's  *)
(* configuration gives BondingDuration and SessionsPerEra.                 *)
(***************************************************************************)
InitRing == 2
InitKton == 1
MaxValue == 2
MaxEra == 2
MaxMonthsElapsed == 3
MaxDeposits == 1
MaxKton == 3
MaxSession == 2
MaxSteps == 4
BondingDuration == 1
SessionsPerEra == 2
ChunkSpare == 1
MaxValidators == 2
MaxItems == 2
ErasPerEpoch == 2
EraReward == 100

(***************************************************************************)
(* Program constants.                                                      *)
(***************************************************************************)
DEFAULT_MINIMUM_VALIDATOR_COUNT == 4
HALF_POWER_COUNT == 500000000
ExtendedBalanceMax == 2147483647
MAX_NOMINATIONS == 16
MAX_UNSTAKE_THRESHOLD == 10
MAX_UNLOCKING_CHUNKS == 32
MONTH_IN_SECONDS == 2592000
(* Perbill counts parts per billion. *)
Billion == 1000000000
(* utils::compute_kton_return is kept outside this file; the model's return is
   value * months / KtonReturnDivisor. *)
KtonReturnDivisor == 3

Accounts == {"a1", "a2"}
Months == {0, 3, 37}
Fractions == {0, 500000000, 1000000000}
RewardDestinations == {"Stash", "Controller"}
Values == {1, MaxValue}
PromiseMonths == {0, 1, 2, 3, 36, 37}

Min(a, b) == IF a < b THEN a ELSE b
Max(a, b) == IF a > b THEN a ELSE b

(* Storage maps: a function whose domain is the set of stored keys. *)
EmptyMap == [x \in {} |-> x]
Put(f, k, v) == [x \in (DOMAIN f) \cup {k} |-> IF x = k THEN v ELSE f[x]]
Del(f, k) == [x \in (DOMAIN f) \ {k} |-> f[x]]

(* StakingBalance::Ring(v) / StakingBalance::Kton(v) *)
Ring(v) == [kind |-> "Ring", value |-> v]
Kton(v) == [kind |-> "Kton", value |-> v]

(* StakingLedgers { stash, ..Default::default() } *)
DefaultLedger(stash) ==
  [stash |-> stash, total_ring |-> 0, active_ring |-> 0, active_deposit_ring |-> 0,
   total_kton |-> 0, active_kton |-> 0, deposit_items |-> <<>>, unlocking |-> <<>>]

(* Exposure::default() *)
DefaultExposure == [total |-> 0, own |-> 0, others |-> <<>>]

(* ValidatorPrefs::default() *)
DefaultValidatorPrefs == [unstake_threshold |-> 3, validator_payment_ratio |-> 0]

(* EraPoints::default(): no points, nobody listed. *)
DefaultEraPoints == [total |-> 0, individual |-> <<>>]

(* The genesis default of SessionReward: Perbill::from_percent(60). *)
SessionReward == 600000000

(* Perbill * n: parts per billion of n, rounded down.  One billion is
   31250 * 32000: parts is split at 31250 and n at 32000, and the partial
   products are summed with their carries, so that no intermediate value leaves
   32 bits. *)
PerbillMul(parts, n) ==
  LET a1 == parts \div 31250
      a0 == parts % 31250
      b1 == n \div 32000
      b0 == n % 32000
      c1 == (a1 * b0) \div 32000
      c0 == (a1 * b0) % 32000
      d1 == (a0 * b1) \div 31250
      d0 == (a0 * b1) % 31250
      low == c0 * 31250 + d0 * 32000
      rest == (low % Billion) + a0 * b0
  IN a1 * b1 + c1 + d1 + (low \div Billion) + (rest \div Billion)

(* utils::compute_kton_return: zero for zero months, monotonic in both arguments. *)
compute_kton_return(value, months) ==
  IF months = 0 THEN 0 ELSE (value * months) \div KtonReturnDivisor

State ==
  [Bonded |-> Bonded, Ledger |-> Ledger, Payee |-> Payee, Validators |-> Validators,
   Nominators |-> Nominators, NodeName |-> NodeName, Stakers |-> Stakers,
   Invulnerables |-> Invulnerables, ForceEra |-> ForceEra, CurrentEra |-> CurrentEra,
   RingPool |-> RingPool, KtonPool |-> KtonPool,
   ValidatorCount |-> ValidatorCount, MinimumValidatorCount |-> MinimumValidatorCount,
   CurrentElected |-> CurrentElected, SlotStake |-> SlotStake,
   CurrentEraStartSessionIndex |-> CurrentEraStartSessionIndex,
   EraSlashJournal |-> EraSlashJournal, EpochIndex |-> EpochIndex,
   CurrentEraTotalReward |-> CurrentEraTotalReward,
   CurrentEraPointsEarned |-> CurrentEraPointsEarned, ringFree |-> ringFree,
   ktonFree |-> ktonFree, ringLock |-> ringLock, ktonLock |-> ktonLock, now |-> now]

Ok(st) == [st |-> st, ret |-> "Ok"]
Err(st) == [st |-> st, ret |-> "Err"]

(* Getters of storage items that have a default value. *)
payee(st, stash) == IF stash \in DOMAIN st.Payee THEN st.Payee[stash] ELSE "Stash"
stakers(st, stash) == IF stash \in DOMAIN st.Stakers THEN st.Stakers[stash] ELSE DefaultExposure

(* The amount of the staking lock of an account; no lock restricts nothing. *)
LockAmount(lock, who) == IF who \in DOMAIN lock THEN lock[who] ELSE 0

(***************************************************************************)
(* Ledger manager.                                                         *)
(***************************************************************************)
(* set_lock of the currencies: the staking lock of who is registered with the new
   amount, whatever the amount is. *)
set_lock(lock, who, amount) == Put(lock, who, amount)

update_ledger(st, controller, ledger, kind) ==
  LET locked == IF kind = "Ring"
                THEN [st EXCEPT !.ringLock = set_lock(@, ledger.stash, ledger.total_ring)]
                ELSE [st EXCEPT !.ktonLock = set_lock(@, ledger.stash, ledger.total_kton)]
  IN [locked EXCEPT !.Ledger = Put(@, controller, ledger)]

(* bond_helper_in_ring as it would be if any promise at all counted as a deposit. *)
bond_helper_in_ring_any_promise(st, stash, controller, value, promise_month, ledger) ==
  LET promised == promise_month >= 1
      kton_return == compute_kton_return(value, promise_month)
      st1 == IF promised THEN [st EXCEPT !.ktonFree[stash] = @ + kton_return] ELSE st
      l1 == IF promised
            THEN [ledger EXCEPT
                    !.active_deposit_ring = @ + value,
                    !.deposit_items = Append(@, [value |-> value, start_time |-> st.now,
                        expire_time |-> st.now + MONTH_IN_SECONDS * promise_month])]
            ELSE ledger
      l2 == [l1 EXCEPT !.active_ring = @ + value, !.total_ring = @ + value]
  IN update_ledger(st1, controller, l2, "Ring")

bond_helper_in_ring(st, stash, controller, value, promise_month, ledger) ==
  LET promised == promise_month >= 3
      kton_return == compute_kton_return(value, promise_month)
      st1 == IF promised THEN [st EXCEPT !.ktonFree[stash] = @ + kton_return] ELSE st
      l1 == IF promised
            THEN [ledger EXCEPT
                    !.active_deposit_ring = @ + value,
                    !.deposit_items = Append(@, [value |-> value, start_time |-> st.now,
                        expire_time |-> st.now + MONTH_IN_SECONDS * promise_month])]
            ELSE ledger
      l2 == [l1 EXCEPT !.active_ring = @ + value, !.total_ring = @ + value]
  IN update_ledger(st1, controller, l2, "Ring")

bond_helper_in_kton(st, controller, value, ledger) ==
  LET l1 == [ledger EXCEPT !.total_kton = @ + value, !.active_kton = @ + value]
  IN update_ledger(st, controller, l1, "Kton")

bond(st, origin, controller, value, dest, promise_month) ==
  LET stash == origin IN
  IF promise_month > 36 THEN Err(st)
  ELSE IF stash \in DOMAIN st.Bonded THEN Err(st)
  ELSE IF controller \in DOMAIN st.Ledger THEN Err(st)
  ELSE
    LET st1 == [st EXCEPT !.Bonded = Put(@, stash, controller),
                          !.Payee = Put(@, stash, dest)]
        ledger == DefaultLedger(stash)
    IN IF value.kind = "Ring"
       THEN LET v == Min(value.value, st1.ringFree[stash])
                st2 == [st1 EXCEPT !.RingPool = @ + v]
            IN Ok(bond_helper_in_ring(st2, stash, controller, v, promise_month, ledger))
       ELSE LET v == Min(value.value, st1.ktonFree[stash])
                st2 == [st1 EXCEPT !.KtonPool = @ + v]
            IN Ok(bond_helper_in_kton(st2, controller, v, ledger))

bond_extra(st, origin, value, promise_month) ==
  LET stash == origin IN
  IF promise_month > 36 THEN Err(st)
  ELSE IF stash \notin DOMAIN st.Bonded THEN Err(st)
  ELSE IF st.Bonded[stash] \notin DOMAIN st.Ledger THEN Err(st)
  ELSE
    LET controller == st.Bonded[stash]
        ledger == st.Ledger[controller]
    IN IF value.kind = "Ring"
       THEN IF st.ringFree[stash] >= ledger.total_ring
            THEN LET extra == Min(st.ringFree[stash] - ledger.total_ring, value.value)
                     st1 == [st EXCEPT !.RingPool = @ + extra]
                 IN Ok(bond_helper_in_ring(st1, stash, controller, extra, promise_month, ledger))
            ELSE Ok(st)
       ELSE IF st.ktonFree[stash] >= ledger.total_kton
            THEN LET extra == Min(st.ktonFree[stash] - ledger.total_kton, value.value)
                     st1 == [st EXCEPT !.KtonPool = @ + extra]
                 IN Ok(bond_helper_in_kton(st1, controller, extra, ledger))
            ELSE Ok(st)

(* The retain loop of clear_mature_deposits on a ledger value: items with
   expire_time <= now are dropped and their value leaves active_deposit_ring. *)
RECURSIVE retain_mature(_, _, _)
retain_mature(ledger, items, moment) ==
  IF items = <<>> THEN ledger
  ELSE LET item == Head(items) IN
       IF item.expire_time > moment
       THEN retain_mature([ledger EXCEPT !.deposit_items = Append(@, item)],
                          Tail(items), moment)
       ELSE retain_mature([ledger EXCEPT !.active_deposit_ring = Max(@ - item.value, 0)],
                          Tail(items), moment)

(* clear_mature_deposits works on a copy of the ledger and returns without
   writing it back: the storage is left as it was. *)
clear_mature_deposits(st, who) ==
  IF who \notin DOMAIN st.Ledger THEN st
  ELSE LET ledger == retain_mature([st.Ledger[who] EXCEPT !.deposit_items = <<>>],
                                   st.Ledger[who].deposit_items, st.now)
       IN st

(* The guard of unbond with the bound taken one too far. *)
can_schedule_unlock_one_more(ledger) == Len(ledger.unlocking) <= MAX_UNLOCKING_CHUNKS

(* ensure!(ledger.unlocking.len() < MAX_UNLOCKING_CHUNKS, ..) *)
can_schedule_unlock(ledger) == Len(ledger.unlocking) < MAX_UNLOCKING_CHUNKS

(* unbond as it would be without the time-deposit rule: the whole of active_ring
   counts as unbondable. *)
unbond_ignoring_deposits(st, origin, value) ==
  LET controller == origin
      st0 == clear_mature_deposits(st, controller)
  IN
  IF controller \notin DOMAIN st0.Ledger THEN Err(st0)
  ELSE LET ledger == st0.Ledger[controller] IN
    IF ~can_schedule_unlock(ledger) THEN Err(st0)
    ELSE
      LET era == st0.CurrentEra + BondingDuration IN
      IF value.kind = "Ring"
      THEN LET available_unbund_ring == Min(value.value, ledger.active_ring)
               st1 == [st0 EXCEPT !.RingPool = @ - available_unbund_ring]
           IN IF available_unbund_ring # 0
              THEN LET l1 == [ledger EXCEPT
                                !.active_ring = @ - available_unbund_ring,
                                !.unlocking = Append(@, [kind |-> "Ring",
                                    value |-> available_unbund_ring, era |-> era])]
                   IN Ok(update_ledger(st1, controller, l1, "Ring"))
              ELSE Ok(st1)
      ELSE LET unbound_kton == Min(value.value, ledger.active_kton)
           IN IF unbound_kton # 0
              THEN LET st1 == [st0 EXCEPT !.KtonPool = @ - unbound_kton]
                       l1 == [ledger EXCEPT
                                !.active_kton = @ - unbound_kton,
                                !.unlocking = Append(@, [kind |-> "Kton",
                                    value |-> unbound_kton, era |-> era])]
                   IN Ok(update_ledger(st1, controller, l1, "Kton"))
              ELSE Ok(st0)

unbond(st, origin, value) ==
  LET controller == origin
      st0 == clear_mature_deposits(st, controller)
  IN
  IF controller \notin DOMAIN st0.Ledger THEN Err(st0)
  ELSE LET ledger == st0.Ledger[controller] IN
    IF ~can_schedule_unlock(ledger) THEN Err(st0)
    ELSE
      LET era == st0.CurrentEra + BondingDuration IN
      IF value.kind = "Ring"
      THEN LET active_normal_ring == ledger.active_ring - ledger.active_deposit_ring
               available_unbund_ring == Min(value.value, active_normal_ring)
               st1 == [st0 EXCEPT !.RingPool = @ - available_unbund_ring]
           IN IF available_unbund_ring # 0
              THEN LET l1 == [ledger EXCEPT
                                !.active_ring = @ - available_unbund_ring,
                                !.unlocking = Append(@, [kind |-> "Ring",
                                    value |-> available_unbund_ring, era |-> era])]
                   IN Ok(update_ledger(st1, controller, l1, "Ring"))
              ELSE Ok(st1)
      ELSE LET unbound_kton == Min(value.value, ledger.active_kton)
           IN IF unbound_kton # 0
              THEN LET st1 == [st0 EXCEPT !.KtonPool = @ - unbound_kton]
                       l1 == [ledger EXCEPT
                                !.active_kton = @ - unbound_kton,
                                !.unlocking = Append(@, [kind |-> "Kton",
                                    value |-> unbound_kton, era |-> era])]
                   IN Ok(update_ledger(st1, controller, l1, "Kton"))
              ELSE Ok(st0)

(* deposit_extra changes its copy of the ledger (active_deposit_ring, deposit_items)
   and mints the Kton; the copy is not written back. *)
deposit_extra(st, origin, value, promise_month) ==
  LET controller == origin IN
  IF promise_month > 36 THEN Err(st)
  ELSE IF controller \notin DOMAIN st.Ledger THEN Err(st)
  ELSE
    LET ledger == st.Ledger[controller]
        st0 == clear_mature_deposits(st, controller)
        v == Min(value, ledger.active_ring - ledger.active_deposit_ring)
    IN IF promise_month >= 3
       THEN LET kton_return == compute_kton_return(v, promise_month)
                l1 == [ledger EXCEPT
                         !.active_deposit_ring = @ + v,
                         !.deposit_items = Append(@, [value |-> v, start_time |-> st0.now,
                             expire_time |-> st0.now + MONTH_IN_SECONDS * promise_month])]
            IN Ok([st0 EXCEPT !.ktonFree[ledger.stash] = @ + kton_return])
       ELSE Ok(st0)

claim_mature_deposits(st, origin) == Ok(clear_mature_deposits(st, origin))

(* The Kton penalty of one deposit item claimed before it expires. *)
kton_punish(item, expire_time, moment) ==
  LET month_left == Max((expire_time - moment) \div MONTH_IN_SECONDS, 1)
  IN compute_kton_return(item.value, month_left) * 3

(* T::Kton::free_balance(stash).checked_sub(&kton_slash) and ensure_can_withdraw:
   the new balance must not fall below the locked amount. *)
kton_can_withdraw(st, stash, kton_slash) ==
  /\ st.ktonFree[stash] >= kton_slash
  /\ st.ktonFree[stash] - kton_slash >= LockAmount(st.ktonLock, stash)

(* The retain loop of claim_deposits_with_punish: the state and the ledger copy
   after the items have been visited in order. *)
RECURSIVE retain_punish(_, _, _, _)
retain_punish(st, ledger, items, expire_time) ==
  IF items = <<>> THEN [st |-> st, ledger |-> ledger]
  ELSE LET item == Head(items)
           kton_slash == kton_punish(item, expire_time, st.now)
       IN IF item.expire_time = expire_time /\ kton_can_withdraw(st, ledger.stash, kton_slash)
          THEN retain_punish(
                 [st EXCEPT !.ktonFree[ledger.stash] = @ - Min(@, kton_slash)],
                 [ledger EXCEPT !.active_deposit_ring = Max(@ - item.value, 0)],
                 Tail(items), expire_time)
          ELSE retain_punish(st, [ledger EXCEPT !.deposit_items = Append(@, item)],
                             Tail(items), expire_time)

(* claim_deposits_with_punish slashes the Kton penalty and edits its copy of the
   ledger; the copy is not written back. *)
claim_deposits_with_punish(st, origin, expire_time) ==
  LET controller == origin IN
  IF controller \notin DOMAIN st.Ledger THEN Err(st)
  ELSE IF ~(expire_time > st.now) THEN Err(st)
  ELSE LET ledger == st.Ledger[controller]
           r == retain_punish(st, [ledger EXCEPT !.deposit_items = <<>>],
                              ledger.deposit_items, expire_time)
       IN Ok(r.st)

(* The retain loop of withdraw_unbonded with the comparison off by one: a chunk
   stays until its era is strictly behind the current era. *)
RECURSIVE retain_unlocking_late(_, _, _, _)
retain_unlocking_late(ledger, chunks, current_era, kinds) ==
  IF chunks = <<>> THEN [ledger |-> ledger, kinds |-> kinds]
  ELSE LET chunk == Head(chunks) IN
       IF chunk.era >= current_era
       THEN retain_unlocking_late([ledger EXCEPT !.unlocking = Append(@, chunk)],
                                  Tail(chunks), current_era, kinds)
       ELSE IF chunk.kind = "Ring"
       THEN retain_unlocking_late([ledger EXCEPT !.total_ring = Max(@ - chunk.value, 0)],
                                  Tail(chunks), current_era, kinds \cup {"Ring"})
       ELSE retain_unlocking_late([ledger EXCEPT !.total_kton = Max(@ - chunk.value, 0)],
                                  Tail(chunks), current_era, kinds \cup {"Kton"})

(* The retain loop of withdraw_unbonded: chunks whose era has come leave the list
   and their value leaves total_ring / total_kton; kinds collects balance_kind. *)
RECURSIVE retain_unlocking(_, _, _, _)
retain_unlocking(ledger, chunks, current_era, kinds) ==
  IF chunks = <<>> THEN [ledger |-> ledger, kinds |-> kinds]
  ELSE LET chunk == Head(chunks) IN
       IF chunk.era > current_era
       THEN retain_unlocking([ledger EXCEPT !.unlocking = Append(@, chunk)],
                             Tail(chunks), current_era, kinds)
       ELSE IF chunk.kind = "Ring"
       THEN retain_unlocking([ledger EXCEPT !.total_ring = Max(@ - chunk.value, 0)],
                             Tail(chunks), current_era, kinds \cup {"Ring"})
       ELSE retain_unlocking([ledger EXCEPT !.total_kton = Max(@ - chunk.value, 0)],
                             Tail(chunks), current_era, kinds \cup {"Kton"})

(* withdraw_unbonded as it would be if it stored the ledger without update_ledger,
   so without renewing the locks. *)
withdraw_unbonded_keeping_lock(st, origin) ==
  LET controller == origin IN
  IF controller \notin DOMAIN st.Ledger THEN Err(st)
  ELSE LET r == retain_unlocking([st.Ledger[controller] EXCEPT !.unlocking = <<>>],
                                 st.Ledger[controller].unlocking, st.CurrentEra, {})
       IN Ok(IF r.kinds # {} THEN [st EXCEPT !.Ledger = Put(@, controller, r.ledger)]
             ELSE st)

withdraw_unbonded(st, origin) ==
  LET controller == origin IN
  IF controller \notin DOMAIN st.Ledger THEN Err(st)
  ELSE LET r == retain_unlocking([st.Ledger[controller] EXCEPT !.unlocking = <<>>],
                                 st.Ledger[controller].unlocking, st.CurrentEra, {})
           st1 == IF "Ring" \in r.kinds
                  THEN update_ledger(st, controller, r.ledger, "Ring") ELSE st
           st2 == IF "Kton" \in r.kinds
                  THEN update_ledger(st1, controller, r.ledger, "Kton") ELSE st1
       IN Ok(st2)

(* validate as it would be without <Nominators<T>>::remove(stash). *)
validate_keeping_nominations(st, origin, name, ratio, unstake_threshold) ==
  LET controller == origin IN
  IF controller \notin DOMAIN st.Ledger THEN Err(st)
  ELSE LET stash == st.Ledger[controller].stash IN
    IF ~(unstake_threshold <= MAX_UNSTAKE_THRESHOLD) THEN Err(st)
    ELSE LET prefs == [unstake_threshold |-> unstake_threshold,
                       validator_payment_ratio |-> Min(ratio, 100) * (Billion \div 100)]
             st1 == [st EXCEPT !.Validators = Put(@, stash, prefs)]
         IN IF controller \notin DOMAIN st1.NodeName
            THEN Ok([st1 EXCEPT !.NodeName = Put(@, controller, name)])
            ELSE Ok(st1)

validate(st, origin, name, ratio, unstake_threshold) ==
  LET controller == origin IN
  IF controller \notin DOMAIN st.Ledger THEN Err(st)
  ELSE LET stash == st.Ledger[controller].stash IN
    IF ~(unstake_threshold <= MAX_UNSTAKE_THRESHOLD) THEN Err(st)
    ELSE LET prefs == [unstake_threshold |-> unstake_threshold,
                       validator_payment_ratio |-> Min(ratio, 100) * (Billion \div 100)]
             st1 == [st EXCEPT !.Nominators = Del(@, stash),
                               !.Validators = Put(@, stash, prefs)]
         IN IF controller \notin DOMAIN st1.NodeName
            THEN Ok([st1 EXCEPT !.NodeName = Put(@, controller, name)])
            ELSE Ok(st1)

nominate(st, origin, targets) ==
  LET controller == origin IN
  IF controller \notin DOMAIN st.Ledger THEN Err(st)
  ELSE LET stash == st.Ledger[controller].stash IN
    IF targets = <<>> THEN Err(st)
    ELSE LET taken == SubSeq(targets, 1, Min(Len(targets), MAX_NOMINATIONS))
         IN Ok([st EXCEPT !.Validators = Del(@, stash),
                          !.Nominators = Put(@, stash, taken)])

chill(st, origin) ==
  LET controller == origin IN
  IF controller \notin DOMAIN st.Ledger THEN Err(st)
  ELSE LET stash == st.Ledger[controller].stash
       IN Ok([st EXCEPT !.Validators = Del(@, stash), !.Nominators = Del(@, stash)])

set_payee(st, origin, dest) ==
  LET controller == origin IN
  IF controller \notin DOMAIN st.Ledger THEN Err(st)
  ELSE LET stash == st.Ledger[controller].stash
       IN Ok([st EXCEPT !.Payee = Put(@, stash, dest)])

set_controller(st, origin, controller) ==
  LET stash == origin IN
  IF stash \notin DOMAIN st.Bonded THEN Err(st)
  ELSE LET old_controller == st.Bonded[stash] IN
    IF controller \in DOMAIN st.Ledger THEN Err(st)
    ELSE IF controller # old_controller
    THEN LET st1 == [st EXCEPT !.Bonded = Put(@, stash, controller)]
         IN IF old_controller \in DOMAIN st1.Ledger
            THEN Ok([st1 EXCEPT !.Ledger = Put(Del(@, old_controller), controller,
                                               st1.Ledger[old_controller])])
            ELSE Ok(st1)
    ELSE Ok(st)

(***************************************************************************)
(* Stash removal and the currency hooks.                                   *)
(***************************************************************************)
kill_stash(st, stash) ==
  LET st1 == IF stash \in DOMAIN st.Bonded
             THEN [st EXCEPT !.Bonded = Del(@, stash),
                             !.Ledger = Del(@, st.Bonded[stash])]
             ELSE st
  IN [st1 EXCEPT !.Payee = Del(@, stash),
                 !.Validators = Del(@, stash),
                 !.Nominators = Del(@, stash)]

on_free_balance_zero(st, stash) == kill_stash(st, stash)

(* The Ring currency sets a free balance; a balance that falls to zero is below
   the existential deposit, and the currency calls on_free_balance_zero at once. *)
ring_set_free(st, who, balance) ==
  LET st1 == [st EXCEPT !.ringFree[who] = balance]
  IN IF balance = 0 /\ st.ringFree[who] > 0 THEN on_free_balance_zero(st1, who) ELSE st1

(* T::Ring::slash(who, value) and T::Kton::slash(who, value): the free balance
   loses min(free, value). *)
ring_slash(st, who, value) == ring_set_free(st, who, st.ringFree[who] - Min(st.ringFree[who], value))
kton_slash_free(st, who, value) == [st EXCEPT !.ktonFree[who] = @ - Min(@, value)]

(* A transfer of free Ring between accounts: the locked amount stays behind. *)
ring_transfer(st, from, to, value) ==
  IF from = to \/ value > st.ringFree[from]
     \/ st.ringFree[from] - value < LockAmount(st.ringLock, from)
  THEN Err(st)
  ELSE Ok(ring_set_free([st EXCEPT !.ringFree[to] = @ + value], from,
                        st.ringFree[from] - value))

(***************************************************************************)
(* Slashing engine.  The operators are set-valued: sort_unstable_by_key    *)
(* leaves the order of deposit items with equal expire_time open, and an   *)
(* unwrap() of a missing Bonded or Ledger entry panics (no outcome).       *)
(***************************************************************************)
RemoveAt(s, i) == SubSeq(s, 1, i - 1) \o SubSeq(s, i + 1, Len(s))

(* The sort as it would be with the key expire_time itself: every ordering of the
   items by ascending expire_time. *)
RECURSIVE sort_by_expire_asc(_)
sort_by_expire_asc(items) ==
  IF items = <<>> THEN {<<>>}
  ELSE UNION {
         { <<items[i]>> \o rest : rest \in sort_by_expire_asc(RemoveAt(items, i)) } :
         i \in { k \in 1..Len(items) :
                   \A j \in 1..Len(items) : items[j].expire_time >= items[k].expire_time } }

(* deposit_items.sort_unstable_by_key(|item| u64::max_value() - expire_time):
   every ordering of the items by descending expire_time. *)
RECURSIVE sort_by_expire_desc(_)
sort_by_expire_desc(items) ==
  IF items = <<>> THEN {<<>>}
  ELSE UNION {
         { <<items[i]>> \o rest : rest \in sort_by_expire_desc(RemoveAt(items, i)) } :
         i \in { k \in 1..Len(items) :
                   \A j \in 1..Len(items) : items[j].expire_time <= items[k].expire_time } }

(* The drain_filter loop as it would be without item.value -= value_removed: an
   item that is only partly slashed keeps its value. *)
RECURSIVE drain_deposits_keeping_value(_, _, _)
drain_deposits_keeping_value(items, value_left, kept) ==
  IF items = <<>> THEN [items |-> kept, value_left |-> value_left]
  ELSE LET item == Head(items) IN
       IF value_left = 0
       THEN drain_deposits_keeping_value(Tail(items), value_left, Append(kept, item))
       ELSE LET value_removed == Min(value_left, item.value)
            IN drain_deposits_keeping_value(Tail(items), value_left - value_removed,
                 IF item.value - value_removed = 0 THEN kept ELSE Append(kept, item))

(* The drain_filter loop of slash_helper over the sorted items. *)
RECURSIVE drain_deposits(_, _, _)
drain_deposits(items, value_left, kept) ==
  IF items = <<>> THEN [items |-> kept, value_left |-> value_left]
  ELSE LET item == Head(items) IN
       IF value_left = 0
       THEN drain_deposits(Tail(items), value_left, Append(kept, item))
       ELSE LET value_removed == Min(value_left, item.value)
                item1 == [item EXCEPT !.value = @ - value_removed]
            IN drain_deposits(Tail(items), value_left - value_removed,
                              IF item1.value = 0 THEN kept ELSE Append(kept, item1))

(* The Ring arm of slash_helper as it would be without
   *active_deposit_ring -= value_removed in the drain_filter loop. *)
slash_helper_ring_stale_deposit(st, controller, ledger, r) ==
  LET total_value == Min(r, ledger.active_ring)
      normal_active_value == Min(total_value, ledger.active_ring - ledger.active_deposit_ring)
      st1 == [st EXCEPT !.RingPool = @ - normal_active_value]
      l1 == [ledger EXCEPT !.active_ring = @ - normal_active_value,
                           !.total_ring = @ - normal_active_value]
      value_left == total_value - normal_active_value
  IN IF value_left # 0
     THEN { LET d == drain_deposits(sorted, value_left, <<>>)
                removed == value_left - d.value_left
                l2 == [l1 EXCEPT !.total_ring = @ - removed,
                                 !.active_ring = @ - removed,
                                 !.deposit_items = d.items]
                st2 == [st1 EXCEPT !.RingPool = @ - removed]
            IN [st |-> update_ledger(st2, controller, l2, "Ring"), ledger |-> l2,
                ring |-> total_value, kton |-> 0] :
            sorted \in sort_by_expire_desc(l1.deposit_items) }
     ELSE { [st |-> update_ledger(st1, controller, l1, "Ring"), ledger |-> l1,
             ring |-> total_value, kton |-> 0] }

slash_helper_ring(st, controller, ledger, r) ==
  LET total_value == Min(r, ledger.active_ring)
      normal_active_value == Min(total_value, ledger.active_ring - ledger.active_deposit_ring)
      st1 == [st EXCEPT !.RingPool = @ - normal_active_value]
      l1 == [ledger EXCEPT !.active_ring = @ - normal_active_value,
                           !.total_ring = @ - normal_active_value]
      value_left == total_value - normal_active_value
  IN IF value_left # 0
     THEN { LET d == drain_deposits(sorted, value_left, <<>>)
                removed == value_left - d.value_left
                l2 == [l1 EXCEPT !.total_ring = @ - removed,
                                 !.active_ring = @ - removed,
                                 !.active_deposit_ring = @ - removed,
                                 !.deposit_items = d.items]
                st2 == [st1 EXCEPT !.RingPool = @ - removed]
            IN [st |-> update_ledger(st2, controller, l2, "Ring"), ledger |-> l2,
                ring |-> total_value, kton |-> 0] :
            sorted \in sort_by_expire_desc(l1.deposit_items) }
     ELSE { [st |-> update_ledger(st1, controller, l1, "Ring"), ledger |-> l1,
             ring |-> total_value, kton |-> 0] }

(* The Kton arm of slash_helper as it would be without
   ledger.total_kton -= active_value. *)
slash_helper_kton_stale_total(st, controller, ledger, k) ==
  LET active_value == Min(k, ledger.active_kton)
      l1 == [ledger EXCEPT !.active_kton = @ - active_value]
      st1 == [st EXCEPT !.KtonPool = @ - active_value]
  IN { [st |-> update_ledger(st1, controller, l1, "Kton"), ledger |-> l1,
        ring |-> 0, kton |-> active_value] }

slash_helper_kton(st, controller, ledger, k) ==
  LET active_value == Min(k, ledger.active_kton)
      l1 == [ledger EXCEPT !.active_kton = @ - active_value,
                           !.total_kton = @ - active_value]
      st1 == [st EXCEPT !.KtonPool = @ - active_value]
  IN { [st |-> update_ledger(st1, controller, l1, "Kton"), ledger |-> l1,
        ring |-> 0, kton |-> active_value] }

slash_helper(st, controller, ledger, value) ==
  IF value.kind = "Ring"
  THEN slash_helper_ring(st, controller, ledger, value.value)
  ELSE slash_helper_kton(st, controller, ledger, value.value)

(* The states slash_individual can end in; the local ledger survives the Ring
   part and is written again by the Kton part. *)
slash_individual(st, stash, slash_ratio) ==
  IF stash \notin DOMAIN st.Bonded THEN {}
  ELSE IF st.Bonded[stash] \notin DOMAIN st.Ledger THEN {}
  ELSE
    LET controller == st.Bonded[stash]
        ledger == st.Ledger[controller]
        after_ring ==
          IF ledger.total_ring # 0
          THEN { [st |-> ring_slash(h.st, stash, h.ring), ledger |-> h.ledger] :
                 h \in slash_helper(st, controller, ledger,
                                    Ring(PerbillMul(slash_ratio, ledger.total_ring))) }
          ELSE { [st |-> st, ledger |-> ledger] }
    IN UNION {
         IF a.ledger.total_kton # 0
         THEN { kton_slash_free(h.st, stash, h.kton) :
                h \in slash_helper(a.st, controller, a.ledger,
                                   Kton(PerbillMul(slash_ratio, a.ledger.total_kton))) }
         ELSE { a.st } :
         a \in after_ring }

RECURSIVE slash_others(_, _, _)
slash_others(sts, others, slash_ratio) ==
  IF others = <<>> THEN sts
  ELSE slash_others(UNION { slash_individual(s, Head(others).who, slash_ratio) : s \in sts },
                    Tail(others), slash_ratio)

slash_validator(st, stash, slash_ratio_in_u32) ==
  LET slash_ratio == Min(slash_ratio_in_u32, Billion)
      exposures == stakers(st, stash)
  IN slash_others(slash_individual(st, stash, slash_ratio), exposures.others, slash_ratio)

ensure_new_era(st) ==
  IF st.ForceEra \in {"ForceAlways", "ForceNew"} THEN st
  ELSE [st EXCEPT !.ForceEra = "ForceNew"]

(* The getter era_slash_journal and EraSlashJournal::insert.  The map is held
   as its getter reads it: an entry with no journal entries is no entry. *)
era_slash_journal(st, era) ==
  IF era \in DOMAIN st.EraSlashJournal THEN st.EraSlashJournal[era] ELSE <<>>

insert_journal(st, era, journal) ==
  IF journal = <<>> THEN [st EXCEPT !.EraSlashJournal = Del(@, era)]
  ELSE [st EXCEPT !.EraSlashJournal = Put(@, era, journal)]

(* on_offence as it would be if the test amount.is_zero() came before the
   offender is taken out of Validators. *)
on_offence_zero_first(st, stash, exposure, slash_fraction, disable) ==
  LET era_now == st.CurrentEra
      journal == era_slash_journal(st, era_now)
      amount == PerbillMul(slash_fraction, exposure.total)
      st1 == IF stash \in DOMAIN st.Validators
             THEN ensure_new_era([st EXCEPT !.Validators = Del(@, stash)])
             ELSE st
      st2 == IF disable THEN ensure_new_era(st1) ELSE st1
  IN IF stash \in st.Invulnerables \/ amount = 0
     THEN { insert_journal(st, era_now, journal) }
     ELSE { insert_journal(s, era_now, journal) :
            s \in UNION { slash_validator(st2, stash, slash_ratio_in_u32) :
                          slash_ratio_in_u32 \in {slash_fraction, amount} } }

(* on_offence for one offender (details.offender = (stash, exposure)) with its slash
   fraction; disable is what SessionInterface::disable_validator answers.  The call
   of slash_validator passes arguments its definition does not take: the number
   slash_validator builds its Perbill from is the offence's fraction or the amount,
   and the journal handed over is not written by it. *)
on_offence(st, stash, exposure, slash_fraction, disable) ==
  LET era_now == st.CurrentEra
      journal == era_slash_journal(st, era_now)
      st1 == IF stash \in DOMAIN st.Validators
             THEN ensure_new_era([st EXCEPT !.Validators = Del(@, stash)])
             ELSE st
      amount == PerbillMul(slash_fraction, exposure.total)
      st2 == IF disable THEN ensure_new_era(st1) ELSE st1
  IN IF stash \in st.Invulnerables THEN { insert_journal(st, era_now, journal) }
     ELSE IF amount = 0 THEN { insert_journal(st1, era_now, journal) }
     ELSE { insert_journal(s, era_now, journal) :
            s \in UNION { slash_validator(st2, stash, slash_ratio_in_u32) :
                          slash_ratio_in_u32 \in {slash_fraction, amount} } }

(* FilterHistoricalOffences::report_offence: an offence of a session before
   CurrentEraStartSessionIndex only deposits an event; any other goes to the
   inner reporter, which hands it to on_offence. *)
report_offence(st, offence_session, stash, exposure, slash_fraction, disable) ==
  IF offence_session >= st.CurrentEraStartSessionIndex
  THEN on_offence(st, stash, exposure, slash_fraction, disable)
  ELSE {st}

(* Root call: ensure_root(origin)? lets only the root origin through. *)
force_new_era(st, origin) ==
  IF origin # "Root" THEN Err(st)
  ELSE Ok([st EXCEPT !.ForceEra = "ForceNone"])

(***************************************************************************)
(* Era / session controller.                                               *)
(***************************************************************************)
(* calc_power: Perquintill::from_rational_approximation(active, pool.max(1)) *
   HALF_POWER_COUNT, rounded down; the quotient is taken before the product so
   that no intermediate value leaves 32 bits. *)
calc_power(active, pool) ==
  LET p == Max(pool, 1)
  IN IF active >= p THEN HALF_POWER_COUNT
     ELSE (HALF_POWER_COUNT \div p) * active + ((HALF_POWER_COUNT % p) * active) \div p

power_of(st, stash) ==
  IF stash \in DOMAIN st.Bonded /\ st.Bonded[stash] \in DOMAIN st.Ledger
  THEN LET l == st.Ledger[st.Bonded[stash]]
       IN calc_power(l.active_ring, st.RingPool) + calc_power(l.active_kton, st.KtonPool)
  ELSE 0

(* Every order in which the elements of a finite set can be listed. *)
RECURSIVE Orderings(_)
Orderings(S) ==
  IF S = {} THEN {<<>>}
  ELSE UNION { { <<x>> \o o : o \in Orderings(S \ {x}) } : x \in S }

None == [some |-> FALSE]

(* What the election can answer: None if there are fewer candidates than the
   minimum; otherwise min(validator_count, number of candidates) winners, in any
   order and of any choice, and for every nominator that backs a winner its stake
   spread evenly over the winners among its targets. *)
elect(validator_count, minimum_validator_count, validator_candidates, nominators) ==
  IF Cardinality(validator_candidates) < minimum_validator_count THEN {None}
  ELSE
    LET to_elect == Min(validator_count, Cardinality(validator_candidates))
        Backed(n, winners) ==
          SelectSeq(nominators[n], LAMBDA c : \E i \in 1..Len(winners) : winners[i] = c)
        Assignment(n, winners) ==
          LET won == Backed(n, winners)
          IN [who |-> n,
              distribution |-> [i \in 1..Len(won) |->
                                 [who |-> won[i], per_thing |-> Billion \div Len(won)]]]
    IN UNION {
         { [some |-> TRUE, winners |-> winners,
            assignments |-> [i \in 1..Len(voters) |-> Assignment(voters[i], winners)]] :
           voters \in Orderings({ n \in DOMAIN nominators : Backed(n, winners) # <<>> }) } :
         winners \in UNION { Orderings(W) :
                               W \in { X \in SUBSET validator_candidates :
                                         Cardinality(X) = to_elect } } }

(* The elections select_validators can be handed in the storage st. *)
elections(st) ==
  elect(st.ValidatorCount, Max(st.MinimumValidatorCount, 1),
        DOMAIN st.Validators, st.Nominators)

(* The loop "for (c, per_thing) in assignment.iter()" of select_validators. *)
RECURSIVE add_support(_, _, _, _, _)
add_support(supports, n, distribution, nominator_stake, i) ==
  IF i > Len(distribution) THEN supports
  ELSE LET c == distribution[i].who
           other_stake == PerbillMul(distribution[i].per_thing, nominator_stake)
       IN add_support(
            IF c \in DOMAIN supports
            THEN [supports EXCEPT ![c].total = @ + other_stake,
                                  ![c].others = Append(@, [who |-> n, value |-> other_stake])]
            ELSE supports,
            n, distribution, nominator_stake, i + 1)

(* The loop "for (n, assignment) in assignments.iter()" of select_validators. *)
RECURSIVE build_supports(_, _, _, _)
build_supports(st, supports, assignments, i) ==
  IF i > Len(assignments) THEN supports
  ELSE build_supports(st,
         add_support(supports, assignments[i].who, assignments[i].distribution,
                     power_of(st, assignments[i].who), 1),
         assignments, i + 1)

(* The loop over supports as it would be with the test turned round
   (exposure.total > slot_stake). *)
RECURSIVE MinTotal_reversed(_, _, _)
MinTotal_reversed(supports, keys, slot_stake) ==
  IF keys = {} THEN slot_stake
  ELSE LET c == CHOOSE x \in keys : TRUE
       IN MinTotal_reversed(supports, keys \ {c}, Max(slot_stake, supports[c].total))

(* The loop "for (c, s) in supports.into_iter()": the least exposure.total. *)
RECURSIVE MinTotal(_, _, _)
MinTotal(supports, keys, slot_stake) ==
  IF keys = {} THEN slot_stake
  ELSE LET c == CHOOSE x \in keys : TRUE
       IN MinTotal(supports, keys \ {c}, Min(slot_stake, supports[c].total))

(* The Some arm of select_validators as it would be without the loop that clears
   Stakers of the elected of the era that ends. *)
put_elected_set_keeping_losers(st, elected_set) ==
  LET elected_stashes == elected_set.winners
      winners == { elected_stashes[i] : i \in 1..Len(elected_stashes) }
      initial == [e \in winners |->
                    [own |-> power_of(st, e), total |-> power_of(st, e), others |-> <<>>]]
      supports == build_supports(st, initial, elected_set.assignments, 1)
      populated == [c \in DOMAIN st.Stakers \cup winners |->
                      IF c \in winners
                      THEN [total |-> supports[c].total, own |-> supports[c].own,
                            others |-> supports[c].others]
                      ELSE st.Stakers[c]]
  IN [st EXCEPT !.Stakers = populated,
                !.SlotStake = MinTotal(supports, winners, ExtendedBalanceMax),
                !.CurrentElected = elected_stashes]

(* The storage after the arm "if let Some(elected_set) = maybe_elected_set" of
   select_validators (the build without the feature "equalize"). *)
put_elected_set(st, elected_set) ==
  LET elected_stashes == elected_set.winners
      winners == { elected_stashes[i] : i \in 1..Len(elected_stashes) }
      initial == [e \in winners |->
                    [own |-> power_of(st, e), total |-> power_of(st, e), others |-> <<>>]]
      supports == build_supports(st, initial, elected_set.assignments, 1)
      cleared == [v \in DOMAIN st.Stakers
                       \ { st.CurrentElected[i] : i \in 1..Len(st.CurrentElected) }
                    |-> st.Stakers[v]]
      populated == [c \in DOMAIN cleared \cup winners |->
                      IF c \in winners
                      THEN [total |-> supports[c].total, own |-> supports[c].own,
                            others |-> supports[c].others]
                      ELSE cleared[c]]
      slot_stake == MinTotal(supports, winners, ExtendedBalanceMax)
  IN [st EXCEPT !.Stakers = populated,
                !.SlotStake = slot_stake,
                !.CurrentElected = elected_stashes]

(* select_validators as it would be if Stakers were cleared and SlotStake put
   before the answer of elect(..) is looked at. *)
select_validators_clearing_first(st, maybe_elected_set) ==
  IF maybe_elected_set.some
  THEN put_elected_set(st, maybe_elected_set)
  ELSE [st EXCEPT !.Stakers = [v \in DOMAIN @
                                     \ { st.CurrentElected[i] : i \in 1..Len(st.CurrentElected) }
                                 |-> @[v]],
                  !.SlotStake = ExtendedBalanceMax]

(* select_validators with the answer of elect(..) as maybe_elected_set. *)
select_validators(st, maybe_elected_set) ==
  IF maybe_elected_set.some
  THEN put_elected_set(st, maybe_elected_set)
  ELSE st

(* EraPoints::add_points_to_index: the list of individual points is made long
   enough to hold the index (counted from 0), the points are added there and to
   the total. *)
add_points_to_index(rewards, index, points) ==
  LET len == Max(index + 1, Len(rewards.individual))
      resized == [i \in 1..len |-> IF i <= Len(rewards.individual)
                                    THEN rewards.individual[i] ELSE 0]
  IN [total |-> rewards.total + points,
      individual |-> [resized EXCEPT ![index + 1] = @ + points]]

(* The loop "for (validator, points) in validators_points.into_iter()" of
   reward_by_ids: position(..) is the first place of the validator among the
   elected, counted from 0. *)
RECURSIVE add_points(_, _, _, _)
add_points(rewards, current_elected, validators_points, i) ==
  IF i > Len(validators_points) THEN rewards
  ELSE LET validator == validators_points[i][1]
           points == validators_points[i][2]
           places == { k \in 1..Len(current_elected) : current_elected[k] = validator }
       IN add_points(IF places # {}
                     THEN add_points_to_index(rewards,
                            (CHOOSE k \in places : \A m \in places : k <= m) - 1, points)
                     ELSE rewards,
                     current_elected, validators_points, i + 1)

reward_by_ids(st, validators_points) ==
  [st EXCEPT !.CurrentEraPointsEarned =
               add_points(@, st.CurrentElected, validators_points, 1)]

(* authorship::EventHandler.  note_author has an empty body.  The block author
   that <authorship::Module<T>>::author() answers is the input block_author. *)
note_author(st, author) == st

note_uncle(st, block_author, author) ==
  reward_by_ids(st, <<<<block_author, 2>>, <<author, 1>>>>)

(* Perbill::from_rational_approximation(p, q) for q below two billion: the
   parts per billion of p.min(q) / q, rounded down.  The quotient is taken one
   decimal digit at a time so that no intermediate value leaves 32 bits. *)
RECURSIVE RationalDigits(_, _, _, _)
RationalDigits(quotient, rem, q, digits) ==
  IF digits = 0 THEN quotient
  ELSE LET d == Cardinality({ k \in 1..9 :
                               rem >= k * (q \div 10) + ((k * (q % 10) + 9) \div 10) })
           r == 10 * (rem - d * (q \div 10)) - d * (q % 10)
       IN RationalDigits(quotient * 10 + d, r, q, digits - 1)

from_rational_approximation(p, q) ==
  IF Min(p, q) = q THEN Billion ELSE RationalDigits(0, Min(p, q), q, 9)

(* T::Ring::deposit_into_existing(who, amount): an account without balance does
   not exist and receives nothing; .ok() discards the error. *)
deposit_into_existing(st, who, amount) ==
  IF st.ringFree[who] = 0 THEN Err(st)
  ELSE Ok([st EXCEPT !.ringFree[who] = @ + amount])

make_payout(st, stash, amount) ==
  LET dest == payee(st, stash) IN
  IF dest = "Controller"
  THEN IF stash \in DOMAIN st.Bonded
       THEN deposit_into_existing(st, st.Bonded[stash], amount).st
       ELSE st
  ELSE deposit_into_existing(st, stash, amount).st

validators(st, stash) ==
  IF stash \in DOMAIN st.Validators THEN st.Validators[stash] ELSE DefaultValidatorPrefs

(* The loop "for i in exposures.others.iter()" of reward_validator. *)
RECURSIVE pay_nominators(_, _, _, _, _)
pay_nominators(st, others, total, reward, i) ==
  IF i > Len(others) THEN st
  ELSE LET per_u64 == from_rational_approximation(others[i].value, total)
       IN pay_nominators(make_payout(st, others[i].who, PerbillMul(per_u64, reward)),
                         others, total, reward, i + 1)

reward_validator(st, stash, reward) ==
  LET off_the_table == PerbillMul(validators(st, stash).validator_payment_ratio, reward)
      rest == reward - off_the_table
      exposures == stakers(st, stash)
      total == Max(exposures.total, 1)
      paid == pay_nominators(st, exposures.others, total, rest, 1)
      validator_cut == IF rest = 0 THEN 0
                       ELSE PerbillMul(from_rational_approximation(exposures.own, total),
                                       rest)
  IN make_payout(IF rest = 0 THEN st ELSE paid, stash, validator_cut + off_the_table)

(* The loop "for v in validators.iter()" of new_era. *)
RECURSIVE reward_validators(_, _, _, _)
reward_validators(st, elected, block_reward_per_validator, i) ==
  IF i > Len(elected) THEN st
  ELSE reward_validators(reward_validator(st, elected[i], block_reward_per_validator),
                         elected, block_reward_per_validator, i + 1)

(* The reward of the era that ends: session_reward * current_era_total_reward. *)
era_reward(st) == PerbillMul(SessionReward, st.CurrentEraTotalReward)

(* The payout as it would be if every validator were handed the whole reward. *)
payout_undivided(st) ==
  LET reward == era_reward(st) IN
  IF reward # 0
  THEN reward_validators(st, st.CurrentElected, reward, 1)
  ELSE st

(* The first part of new_era: the payout to the validators of the era that ends. *)
payout(st) ==
  LET reward == era_reward(st) IN
  IF reward # 0
  THEN LET elected == st.CurrentElected
           len == Max(Len(elected), 1)
           block_reward_per_validator == reward \div len
       IN reward_validators(st, elected, block_reward_per_validator, 1)
  ELSE st

(* new_epoch as it would be if the answer of the schedule were always put. *)
new_epoch_always_put(st, next_era_reward) ==
  [st EXCEPT !.EpochIndex = @ + 1, !.CurrentEraTotalReward = next_era_reward]

(* utils::compute_current_era_reward is not part of the staking module: what it
   answers is the input next_era_reward. *)
new_epoch(st, next_era_reward) ==
  LET st1 == [st EXCEPT !.EpochIndex = @ + 1] IN
  IF next_era_reward # 0
  THEN [st1 EXCEPT !.CurrentEraTotalReward = next_era_reward]
  ELSE st1

(* The validators are paid, the era counter moves on, a new epoch begins where
   the era is a multiple of ErasPerEpoch, and the stakers are assigned again. *)
new_era(st, maybe_elected_set, next_era_reward) ==
  LET paid == payout(st)
      st1 == [paid EXCEPT !.CurrentEra = @ + 1]
      st2 == IF st1.CurrentEra % ErasPerEpoch = 0
             THEN new_epoch(st1, next_era_reward) ELSE st1
  IN select_validators(st2, maybe_elected_set)

(* ForceNewEra is not among the storage items of decl_storage: what
   ForceNewEra::take() answers is an input. *)
new_session(st, session_index, taken, maybe_elected_set, next_era_reward) ==
  IF taken \/ session_index % SessionsPerEra = 0
  THEN new_era(st, maybe_elected_set, next_era_reward) ELSE st

on_session_ending(st, start_session, taken, maybe_elected_set, next_era_reward) ==
  new_session(st, start_session - 1, taken, maybe_elected_set, next_era_reward)

(***************************************************************************)
(* The state machine.                                                      *)
(***************************************************************************)
Forcing == {"NotForcing", "ForceNew", "ForceNone", "ForceAlways"}
Origins == {"Root"} \cup Accounts
StakingBalances == { Ring(v) : v \in Values } \cup { Kton(v) : v \in Values }
ExpireTimes == { m * MONTH_IN_SECONDS : m \in {0} \cup 3..(MaxMonthsElapsed + 3) }
Exposures == { DefaultExposure, [total |-> MaxValue, own |-> MaxValue, others |-> <<>>] }
TargetLists == {<<>>} \cup { <<a>> : a \in Accounts }
Ratios == {150}
Thresholds == {3, 11}
EraRewards == {0, EraReward}

(* The storage before the genesis stakers are built: nobody is bonded, every
   account holds ring Ring and InitKton Kton, and the config() items have the
   values the genesis configuration gives them. *)
GenesisStorage(ring, mode, validator_count, minimum_validator_count) ==
  [Bonded |-> EmptyMap, Ledger |-> EmptyMap, Payee |-> EmptyMap,
   Validators |-> EmptyMap, Nominators |-> EmptyMap, NodeName |-> EmptyMap,
   Stakers |-> EmptyMap, Invulnerables |-> {}, ForceEra |-> mode, CurrentEra |-> 0,
   RingPool |-> 0, KtonPool |-> 0,
   ValidatorCount |-> validator_count,
   MinimumValidatorCount |-> minimum_validator_count,
   CurrentElected |-> <<>>, SlotStake |-> 0,
   CurrentEraStartSessionIndex |-> 0, EraSlashJournal |-> EmptyMap,
   EpochIndex |-> 0, CurrentEraTotalReward |-> 0,
   CurrentEraPointsEarned |-> DefaultEraPoints,
   ringFree |-> [a \in Accounts |-> ring],
   ktonFree |-> [a \in Accounts |-> InitKton],
   ringLock |-> EmptyMap, ktonLock |-> EmptyMap, now |-> 0]

(* The machine starts with the storage st. *)
Started(st) ==
  /\ Bonded = st.Bonded
  /\ Ledger = st.Ledger
  /\ Payee = st.Payee
  /\ Validators = st.Validators
  /\ Nominators = st.Nominators
  /\ NodeName = st.NodeName
  /\ Stakers = st.Stakers
  /\ Invulnerables = st.Invulnerables
  /\ ForceEra = st.ForceEra
  /\ CurrentEra = st.CurrentEra
  /\ RingPool = st.RingPool
  /\ KtonPool = st.KtonPool
  /\ ValidatorCount = st.ValidatorCount
  /\ MinimumValidatorCount = st.MinimumValidatorCount
  /\ CurrentElected = st.CurrentElected
  /\ SlotStake = st.SlotStake
  /\ CurrentEraStartSessionIndex = st.CurrentEraStartSessionIndex
  /\ EraSlashJournal = st.EraSlashJournal
  /\ EpochIndex = st.EpochIndex
  /\ CurrentEraTotalReward = st.CurrentEraTotalReward
  /\ CurrentEraPointsEarned = st.CurrentEraPointsEarned
  /\ ringFree = st.ringFree
  /\ ktonFree = st.ktonFree
  /\ ringLock = st.ringLock
  /\ ktonLock = st.ktonLock
  /\ now = st.now
  /\ steps = 0

(* Genesis without stakers: ValidatorCount has no configured value and
   MinimumValidatorCount has its default. *)
Genesis(ring, modes) ==
  \E mode \in modes :
    Started(GenesisStorage(ring, mode, 0, DEFAULT_MINIMUM_VALIDATOR_COUNT))

Init == Genesis(InitRing, {"NotForcing"})

(* The caps that keep the model finite. *)
Bounded(st) ==
  /\ \A a \in Accounts : st.ktonFree[a] <= Max(MaxKton, ktonFree[a])
  /\ \A c \in DOMAIN st.Ledger :
       Len(st.Ledger[c].deposit_items)
         <= Max(MaxDeposits,
                IF c \in DOMAIN Ledger THEN Len(Ledger[c].deposit_items) ELSE 0)
  /\ st.CurrentEra <= MaxEra
  /\ st.now <= MaxMonthsElapsed * MONTH_IN_SECONDS

(* The storage after a call. *)
Store(st) ==
  /\ Bonded' = st.Bonded
  /\ Ledger' = st.Ledger
  /\ Payee' = st.Payee
  /\ Validators' = st.Validators
  /\ Nominators' = st.Nominators
  /\ NodeName' = st.NodeName
  /\ Stakers' = st.Stakers
  /\ Invulnerables' = st.Invulnerables
  /\ ForceEra' = st.ForceEra
  /\ CurrentEra' = st.CurrentEra
  /\ RingPool' = st.RingPool
  /\ KtonPool' = st.KtonPool
  /\ ValidatorCount' = st.ValidatorCount
  /\ MinimumValidatorCount' = st.MinimumValidatorCount
  /\ CurrentElected' = st.CurrentElected
  /\ SlotStake' = st.SlotStake
  /\ CurrentEraStartSessionIndex' = st.CurrentEraStartSessionIndex
  /\ EraSlashJournal' = st.EraSlashJournal
  /\ EpochIndex' = st.EpochIndex
  /\ CurrentEraTotalReward' = st.CurrentEraTotalReward
  /\ CurrentEraPointsEarned' = st.CurrentEraPointsEarned
  /\ ringFree' = st.ringFree
  /\ ktonFree' = st.ktonFree
  /\ ringLock' = st.ringLock
  /\ ktonLock' = st.ktonLock
  /\ now' = st.now

Commit(st) ==
  /\ steps < MaxSteps
  /\ steps' = IF st = State THEN steps ELSE steps + 1
  /\ Bounded(st)
  /\ Store(st)

Bond(values, dests, months) ==
  \E origin \in Accounts, controller \in Accounts, value \in values,
     dest \in dests, promise_month \in months :
    Commit(bond(State, origin, controller, value, dest, promise_month).st)

BondExtra(values, months) ==
  \E origin \in Accounts, value \in values, promise_month \in months :
    Commit(bond_extra(State, origin, value, promise_month).st)

Unbond(values) ==
  \E origin \in Accounts, value \in values :
    Commit(unbond(State, origin, value).st)

DepositExtra ==
  \E origin \in Accounts, value \in Values, promise_month \in {0, 3} :
    Commit(deposit_extra(State, origin, value, promise_month).st)

ClaimMatureDeposits ==
  \E origin \in Accounts :
    Commit(claim_mature_deposits(State, origin).st)

ClaimDepositsWithPunish ==
  \E origin \in Accounts, expire_time \in ExpireTimes :
    Commit(claim_deposits_with_punish(State, origin, expire_time).st)

WithdrawUnbonded ==
  \E origin \in Accounts :
    Commit(withdraw_unbonded(State, origin).st)

Validate ==
  \E origin \in Accounts, ratio \in Ratios, unstake_threshold \in Thresholds :
    Commit(validate(State, origin, "name", ratio, unstake_threshold).st)

Nominate ==
  \E origin \in Accounts, targets \in TargetLists :
    Commit(nominate(State, origin, targets).st)

Chill ==
  \E origin \in Accounts : Commit(chill(State, origin).st)

SetPayee ==
  \E origin \in Accounts, dest \in RewardDestinations :
    Commit(set_payee(State, origin, dest).st)

SetController ==
  \E origin \in Accounts, controller \in Accounts :
    Commit(set_controller(State, origin, controller).st)

(* While no validator set has been elected disable_validator answers Err(()),
   which on_offence reads as false; afterwards its answer is the session
   module's.  The exposure is the one the offence was reported with. *)
OnOffence ==
  \E stash \in Accounts, slash_fraction \in Fractions,
     disable \in IF CurrentElected = <<>> THEN {FALSE} ELSE BOOLEAN :
    \E exposure \in Exposures \cup {stakers(State, stash)} :
      \E st \in on_offence(State, stash, exposure, slash_fraction, disable) :
        Commit(st)

(* The reward schedule is asked only where the era that begins is a multiple of
   ErasPerEpoch; elsewhere its answer is never read. *)
OnSessionEnding ==
  \E start_session \in 1..MaxSession, taken \in BOOLEAN,
     maybe_elected_set \in elections(State),
     next_era_reward \in IF (CurrentEra + 1) % ErasPerEpoch = 0 THEN EraRewards ELSE {0} :
    Commit(on_session_ending(State, start_session, taken, maybe_elected_set,
                             next_era_reward))

(* The environment: the timestamp moves on, free Ring is transferred. *)
SetTimestamp ==
  Commit([State EXCEPT !.now = @ + MONTH_IN_SECONDS])

RingTransfer ==
  \E from \in Accounts, to \in Accounts, value \in Values :
    LET r == ring_transfer(State, from, to, value)
    IN r.ret = "Ok" /\ Commit(r.st)

(* The ledger machine: bonding, unbonding, deposits, withdrawal, slashing, eras. *)
Next ==
  \/ Bond(StakingBalances, {"Stash"}, {0, 3})
  \/ BondExtra(StakingBalances, {0, 3})
  \/ Unbond(StakingBalances)
  \/ DepositExtra
  \/ ClaimMatureDeposits
  \/ ClaimDepositsWithPunish
  \/ WithdrawUnbonded
  \/ SetController
  \/ OnOffence
  \/ OnSessionEnding
  \/ SetTimestamp
  \/ RingTransfer

Spec == Init /\ [][Next]_vars

(* The role machine: who is bonded, who validates, who nominates. *)
NextRoles ==
  \/ Bond({Ring(MaxValue), Kton(MaxValue)}, RewardDestinations, {0})
  \/ BondExtra({Kton(MaxValue)}, {0})
  \/ Validate
  \/ Nominate
  \/ Chill
  \/ SetPayee
  \/ SetController
  \/ OnOffence
  \/ RingTransfer

SpecRoles == Init /\ [][NextRoles]_vars

(* The unlocking machine: stashes rich enough to fill an unlocking list bond all
   their Ring and unbond it one unit at a time. *)
ChunkRing == MAX_UNLOCKING_CHUNKS + ChunkSpare

InitChunks == Genesis(ChunkRing, {"NotForcing"})

BondAll ==
  \E origin \in Accounts :
    /\ Store(bond(State, origin, origin, Ring(ChunkRing), "Stash", 0).st)
    /\ UNCHANGED steps

UnbondUnit ==
  \E origin \in Accounts :
    /\ Store(unbond(State, origin, Ring(1)).st)
    /\ UNCHANGED steps

NextChunks ==
  \/ BondAll
  \/ UnbondUnit

SpecChunks == InitChunks /\ [][NextChunks]_vars

(* The deposit machine: stashes bond Ring and Kton with and without a promise
   while time passes and free Ring changes hands. *)
NextDeposits ==
  \/ Bond(StakingBalances, {"Stash"}, {0, 3})
  \/ BondExtra(StakingBalances, {0, 3})
  \/ SetTimestamp
  \/ RingTransfer

SpecDeposits == Init /\ [][NextDeposits]_vars

(* add_extra_genesis: every configured staker bonds its Ring for 12 months with
   payee Stash and then validates or nominates as its status says. *)
RECURSIVE build_stakers(_, _)
build_stakers(st, config_stakers) ==
  IF config_stakers = <<>> THEN st
  ELSE LET s == Head(config_stakers)
           bonded == bond(st, s.stash, s.controller, Ring(s.balance), "Stash", 12).st
           placed == IF s.status = "Validator"
                     THEN validate(bonded, s.controller, "name", 0, 3).st
                     ELSE IF s.status = "Nominator"
                     THEN nominate(bonded, s.controller, s.votes).st
                     ELSE bonded
       IN build_stakers(placed, Tail(config_stakers))

Staker(who, balance, status, votes) ==
  [stash |-> who, controller |-> who, balance |-> balance, status |-> status,
   votes |-> votes]

(* The genesis configurations of the election machine: a1 validates with all its
   Ring; a2 is idle, validates or nominates a1 with one Ring. *)
GenesisStakers ==
  { <<Staker("a1", InitRing, "Validator", <<>>)>>,
    <<Staker("a1", InitRing, "Validator", <<>>), Staker("a2", 1, "Validator", <<>>)>>,
    <<Staker("a1", InitRing, "Validator", <<>>), Staker("a2", 1, "Nominator", <<"a1">>)>> }

(* The election machine: the genesis stakers validate, nominate and chill,
   sessions end and elect, offences are reported against the elected. *)
InitElect ==
  \E validator_count \in 1..MaxValidators, minimum_validator_count \in 1..MaxValidators,
     config_stakers \in GenesisStakers, invulnerables \in {{}, {"a1"}} :
    Started(build_stakers([GenesisStorage(InitRing, "NotForcing", validator_count,
                                          minimum_validator_count)
                             EXCEPT !.Invulnerables = invulnerables],
                          config_stakers))

NextElect ==
  \/ Validate
  \/ Nominate
  \/ Chill
  \/ OnSessionEnding
  \/ OnOffence

SpecElect == InitElect /\ [][NextElect]_vars

(* The slash machine: a1 has bonded up to MaxItems + 1 times, each time nothing,
   one Ring or MaxValue Ring for 0, 3 or 6 months, and its ledger is slashed by
   any amount of Ring. *)
StakeRing == (MaxItems + 1) * MaxValue
SlashAmounts == 0..StakeRing
BondRequests == [value : {0} \cup Values, promise_month : {0, 3, 6}]

RECURSIVE build_bonds(_, _, _)
build_bonds(st, stash, requests) ==
  IF requests = <<>> THEN st
  ELSE LET q == Head(requests)
           bonded == IF stash \in DOMAIN st.Bonded
                     THEN bond_extra(st, stash, Ring(q.value), q.promise_month).st
                     ELSE bond(st, stash, stash, Ring(q.value), "Stash",
                               q.promise_month).st
       IN build_bonds(bonded, stash, Tail(requests))

InitSlash ==
  \E n \in 1..(MaxItems + 1) :
    \E requests \in [1..n -> BondRequests] :
      Started(build_bonds(GenesisStorage(StakeRing, "NotForcing", 0,
                                         DEFAULT_MINIMUM_VALIDATOR_COUNT),
                          "a1", requests))

SlashHelper ==
  \E c \in DOMAIN Ledger, r \in SlashAmounts :
    \E h \in slash_helper(State, c, Ledger[c], Ring(r)) : Commit(h.st)

NextSlash == SlashHelper

SpecSlash == InitSlash /\ [][NextSlash]_vars

(* The reward machine: the genesis configuration gives the era reward, the
   validators choose their cut, payees change, offenders are slashed, and each
   session that ends pays the elected of the era and elects again. *)
Cuts == {0, 50, 150}

ValidateWithCut ==
  \E origin \in Accounts, ratio \in Cuts :
    Commit(validate(State, origin, "name", ratio, 3).st)

InitRewards ==
  \E config_stakers \in GenesisStakers, current_era_total_reward \in EraRewards :
    Started(build_stakers([GenesisStorage(InitRing, "NotForcing", MaxValidators, 1)
                             EXCEPT !.CurrentEraTotalReward = current_era_total_reward],
                          config_stakers))

NextRewards ==
  \/ ValidateWithCut
  \/ SetPayee
  \/ OnOffence
  \/ OnSessionEnding

SpecRewards == InitRewards /\ [][NextRewards]_vars

(* The points machine: blocks are authored and uncles referenced by any account
   while validators chill and sessions end and elect. *)
NoteAuthor ==
  \E author \in Accounts : Commit(note_author(State, author))

NoteUncle ==
  \E block_author \in Accounts, author \in Accounts :
    Commit(note_uncle(State, block_author, author))

NextPoints ==
  \/ NoteAuthor
  \/ NoteUncle
  \/ Chill
  \/ OnSessionEnding

SpecPoints == InitRewards /\ [][NextPoints]_vars

(* The era machine: genesis configures any forcing mode, sessions end, the root
   calls force_new_era, and stashes bond, unbond and withdraw across the eras. *)
InitEras == Genesis(InitRing, Forcing)

ForceNewEra ==
  \E origin \in Origins : Commit(force_new_era(State, origin).st)

NextEras ==
  \/ Bond({Ring(MaxValue)}, {"Stash"}, {0})
  \/ Unbond({Ring(1)})
  \/ WithdrawUnbonded
  \/ ForceNewEra
  \/ OnSessionEnding

SpecEras == InitEras /\ [][NextEras]_vars

(***************************************************************************)
(* Properties of the ledger manager.                                       *)
(***************************************************************************)
RECURSIVE SumValues(_)
SumValues(s) == IF s = <<>> THEN 0 ELSE Head(s).value + SumValues(Tail(s))

OfKind(chunks, kind) == SelectSeq(chunks, LAMBDA ch : ch.kind = kind)

RECURSIVE SumOver(_, _)
SumOver(f, keys) ==
  IF keys = {} THEN 0
  ELSE LET k == CHOOSE x \in keys : TRUE IN f[k] + SumOver(f, keys \ {k})

(* Ring was slashed at some point: transfers keep the sum of the free balances. *)
RingWasSlashed == SumOver(ringFree, Accounts) < Cardinality(Accounts) * InitRing

(* C1: RingPool is the sum of active_ring and KtonPool the sum of active_kton
   over all stored ledgers, in every reachable state. *)
C1_PoolsAreLedgerSums ==
  /\ RingPool = SumOver([c \in DOMAIN Ledger |-> Ledger[c].active_ring], DOMAIN Ledger)
  /\ KtonPool = SumOver([c \in DOMAIN Ledger |-> Ledger[c].active_kton], DOMAIN Ledger)

(* C2: every stored ledger has 0 <= active_deposit_ring <= active_ring <= total_ring
   and 0 <= active_kton <= total_kton, so active_ring - active_deposit_ring never
   underflows. *)
C2_LedgerOrdering ==
  \A c \in DOMAIN Ledger :
    LET L == Ledger[c] IN
    /\ 0 <= L.active_deposit_ring
    /\ L.active_deposit_ring <= L.active_ring
    /\ L.active_ring <= L.total_ring
    /\ 0 <= L.active_kton
    /\ L.active_kton <= L.total_kton

(* A ledger with a deposit, normal Ring beside it, and Kton that is unbonding. *)
C2_Witness ==
  \E c \in DOMAIN Ledger :
    LET L == Ledger[c] IN
    /\ 0 < L.active_deposit_ring
    /\ L.active_deposit_ring < L.active_ring
    /\ L.active_kton < L.total_kton

(* C3: in every stored ledger the values of deposit_items sum to
   active_deposit_ring. *)
C3_DepositSum ==
  \A c \in DOMAIN Ledger :
    SumValues(Ledger[c].deposit_items) = Ledger[c].active_deposit_ring

(* A stash that lost Ring to a slash and whose ledger still holds a deposit item,
   and nothing but deposited Ring. *)
C3_Witness ==
  /\ RingWasSlashed
  /\ \E c \in DOMAIN Ledger :
       LET L == Ledger[c] IN
       /\ L.deposit_items # <<>>
       /\ L.active_ring = L.active_deposit_ring
       /\ ringFree[L.stash] = L.total_ring
       /\ ringFree[L.stash] < InitRing

(* C4: in every stored ledger total_ring = active_ring + the Ring unlocking chunks
   and total_kton = active_kton + the Kton unlocking chunks. *)
C4_TotalIsActivePlusUnlocking ==
  \A c \in DOMAIN Ledger :
    LET L == Ledger[c] IN
    /\ L.total_ring = L.active_ring + SumValues(OfKind(L.unlocking, "Ring"))
    /\ L.total_kton = L.active_kton + SumValues(OfKind(L.unlocking, "Kton"))

(* A ledger with chunks of both kinds unlocking. *)
C4_Witness ==
  \E c \in DOMAIN Ledger :
    /\ OfKind(Ledger[c].unlocking, "Ring") # <<>>
    /\ OfKind(Ledger[c].unlocking, "Kton") # <<>>

(* C5: for every stored ledger the staking lock on its stash is total_ring in Ring
   and total_kton in Kton. *)
C5_LockIsTotal ==
  \A c \in DOMAIN Ledger :
    LET L == Ledger[c] IN
    /\ LockAmount(ringLock, L.stash) = L.total_ring
    /\ LockAmount(ktonLock, L.stash) = L.total_kton

(* What C6 asks of the outcome r of one call made in the current state: an error
   leaves every variable as it was, and Kton is minted or slashed only together
   with a stored change of the ledgers. *)
AllOrNothing(r) ==
  /\ r.ret = "Err" => r.st = State
  /\ (r.ret = "Ok" /\ r.st.ktonFree # ktonFree) => r.st.Ledger # Ledger

(* C6: every extrinsic called in any reachable state either returns an error and
   changes nothing, or applies its full effect: when it returns Ok after minting
   or slashing Kton, the ledger change is stored as well. *)
C6_AllOrNothing ==
  \A origin \in Accounts :
    /\ \A controller \in Accounts, value \in StakingBalances,
          dest \in RewardDestinations, promise_month \in Months :
         AllOrNothing(bond(State, origin, controller, value, dest, promise_month))
    /\ \A value \in StakingBalances, promise_month \in Months :
         AllOrNothing(bond_extra(State, origin, value, promise_month))
    /\ \A value \in Values, promise_month \in Months :
         AllOrNothing(deposit_extra(State, origin, value, promise_month))
    /\ \A value \in StakingBalances : AllOrNothing(unbond(State, origin, value))
    /\ \A expire_time \in ExpireTimes :
         AllOrNothing(claim_deposits_with_punish(State, origin, expire_time))
    /\ AllOrNothing(withdraw_unbonded(State, origin))
    /\ \A ratio \in Ratios, unstake_threshold \in Thresholds :
         AllOrNothing(validate(State, origin, "name", ratio, unstake_threshold))
    /\ \A targets \in TargetLists : AllOrNothing(nominate(State, origin, targets))
    /\ AllOrNothing(chill(State, origin))
    /\ \A dest \in RewardDestinations : AllOrNothing(set_payee(State, origin, dest))
    /\ \A controller \in Accounts :
         AllOrNothing(set_controller(State, origin, controller))

(* C7: Bonded[s] = c exactly when Ledger[c] exists with stash s; bond fails when
   the stash is bonded or the controller has a ledger; set_controller fails when
   the new controller has a ledger and otherwise moves the ledger to it. *)
C7_StashControllerPairing ==
  /\ \A s \in Accounts, c \in Accounts :
       (s \in DOMAIN Bonded /\ Bonded[s] = c)
         <=> (c \in DOMAIN Ledger /\ Ledger[c].stash = s)
  /\ \A origin \in Accounts, controller \in Accounts :
       /\ (origin \in DOMAIN Bonded \/ controller \in DOMAIN Ledger) =>
            \A value \in StakingBalances, dest \in RewardDestinations,
               promise_month \in Months :
              bond(State, origin, controller, value, dest, promise_month).ret = "Err"
       /\ LET r == set_controller(State, origin, controller) IN
          /\ controller \in DOMAIN Ledger => r.ret = "Err"
          /\ (r.ret = "Ok" /\ controller # Bonded[origin]) =>
               /\ r.st.Bonded[origin] = controller
               /\ r.st.Ledger = Put(Del(Ledger, Bonded[origin]), controller,
                                    Ledger[Bonded[origin]])

(* C8: no stash is a key of both Validators and Nominators; validate leaves the
   stash a validator only, nominate a nominator only, chill neither. *)
C8_ValidatorOrNominator ==
  /\ DOMAIN Validators \cap DOMAIN Nominators = {}
  /\ \A c \in DOMAIN Ledger :
       LET stash == Ledger[c].stash IN
       /\ \A ratio \in Ratios, unstake_threshold \in Thresholds :
            LET r == validate(State, c, "name", ratio, unstake_threshold) IN
            r.ret = "Ok" => /\ stash \in DOMAIN r.st.Validators
                            /\ stash \notin DOMAIN r.st.Nominators
       /\ \A targets \in TargetLists :
            LET r == nominate(State, c, targets) IN
            r.ret = "Ok" => /\ stash \in DOMAIN r.st.Nominators
                            /\ stash \notin DOMAIN r.st.Validators
       /\ LET r == chill(State, c) IN
          /\ stash \notin DOMAIN r.st.Validators
          /\ stash \notin DOMAIN r.st.Nominators

(* One stash validates while another nominates. *)
C8_Witness == DOMAIN Validators # {} /\ DOMAIN Nominators # {}

(* C9: unbond(Ring(v)) on a ledger takes n = min(v, active_ring - active_deposit_ring)
   out of active_ring and out of RingPool and appends one Ring chunk of value n;
   the Ring of the deposit items that have not expired stays in active_ring; with
   n = 0 no chunk is appended and the ledgers are unchanged. *)
C9_UnbondRing ==
  \A c \in DOMAIN Ledger, v \in Values :
    LET L == Ledger[c]
        n == Min(v, L.active_ring - L.active_deposit_ring)
        r == unbond(State, c, Ring(v))
        L2 == r.st.Ledger[c]
        unexpired == SelectSeq(L.deposit_items, LAMBDA item : item.expire_time > now)
    IN Len(L.unlocking) < MAX_UNLOCKING_CHUNKS =>
       /\ r.ret = "Ok"
       /\ n >= 0
       /\ r.st.RingPool = RingPool - n
       /\ L2.active_ring >= SumValues(unexpired)
       /\ IF n = 0
          THEN r.st.Ledger = Ledger
          ELSE /\ Len(L2.unlocking) = Len(L.unlocking) + 1
               /\ SubSeq(L2.unlocking, 1, Len(L.unlocking)) = L.unlocking
               /\ L2.unlocking[Len(L2.unlocking)].kind = "Ring"
               /\ L2.unlocking[Len(L2.unlocking)].value = n
               /\ L2 = [L EXCEPT !.active_ring = @ - n, !.unlocking = L2.unlocking]
               /\ r.st.Ledger = Put(Ledger, c, L2)

(* A ledger whose normal Ring has all been unbonded while its deposit stays. *)
C9_Witness ==
  \E c \in DOMAIN Ledger :
    LET L == Ledger[c] IN
    /\ OfKind(L.unlocking, "Ring") # <<>>
    /\ 0 < L.active_deposit_ring
    /\ L.active_ring = L.active_deposit_ring

(* C10: the chunk unbond appends carries era = CurrentEra + BondingDuration, so no
   stored chunk lies further ahead; withdraw_unbonded removes exactly the chunks
   with era <= CurrentEra, keeps the others in order, and takes the removed values
   off total_ring / total_kton and off the locks. *)
C10_UnlockingEras ==
  \A c \in DOMAIN Ledger :
    LET L == Ledger[c] IN
    /\ \A i \in 1..Len(L.unlocking) : L.unlocking[i].era <= CurrentEra + BondingDuration
    /\ \A value \in StakingBalances :
         LET U == unbond(State, c, value).st.Ledger[c].unlocking IN
         Len(U) > Len(L.unlocking) => U[Len(U)].era = CurrentEra + BondingDuration
    /\ LET r == withdraw_unbonded(State, c)
           L2 == r.st.Ledger[c]
           due == SelectSeq(L.unlocking, LAMBDA ch : ch.era <= CurrentEra)
           ring == SumValues(OfKind(due, "Ring"))
           kton == SumValues(OfKind(due, "Kton"))
       IN /\ r.ret = "Ok"
          /\ L2.unlocking = SelectSeq(L.unlocking, LAMBDA ch : ch.era > CurrentEra)
          /\ L2 = [L EXCEPT !.total_ring = @ - ring, !.total_kton = @ - kton,
                            !.unlocking = L2.unlocking]
          /\ LockAmount(r.st.ringLock, L.stash) = LockAmount(ringLock, L.stash) - ring
          /\ LockAmount(r.st.ktonLock, L.stash) = LockAmount(ktonLock, L.stash) - kton

(* A ledger with one chunk that is due and one that is not. *)
C10_Witness ==
  \E c \in DOMAIN Ledger :
    /\ \E i \in 1..Len(Ledger[c].unlocking) : Ledger[c].unlocking[i].era <= CurrentEra
    /\ \E i \in 1..Len(Ledger[c].unlocking) : Ledger[c].unlocking[i].era > CurrentEra

(* C11: every stored ledger has at most MAX_UNLOCKING_CHUNKS unlocking chunks, and
   unbond on a ledger that has MAX_UNLOCKING_CHUNKS of them answers an error and
   leaves the whole storage (ledger, pools, locks) as it was. *)
C11_UnlockingCap ==
  \A c \in DOMAIN Ledger :
    /\ Len(Ledger[c].unlocking) <= MAX_UNLOCKING_CHUNKS
    /\ Len(Ledger[c].unlocking) = MAX_UNLOCKING_CHUNKS =>
         \A value \in StakingBalances :
           LET r == unbond(State, c, value)
           IN r.ret = "Err" /\ r.st = State

(* A full unlocking list on a ledger that still has Ring to unbond. *)
C11_Witness ==
  \E c \in DOMAIN Ledger :
    /\ Len(Ledger[c].unlocking) = MAX_UNLOCKING_CHUNKS
    /\ Ledger[c].active_ring - Ledger[c].active_deposit_ring > 0

(* C12: when withdraw_unbonded empties a ledger (every unlocking chunk is due and
   the chunks make up the whole of total_ring and total_kton), the stash is killed:
   Bonded[stash], Ledger[controller], Payee[stash] and the stash's Validators and
   Nominators entries are gone afterwards. *)
C12_WithdrawKillsEmptyStash ==
  \A c \in DOMAIN Ledger :
    LET ledger == Ledger[c]
        stash == ledger.stash
        after == withdraw_unbonded(State, c).st
    IN ( /\ ledger.unlocking # <<>>
         /\ \A i \in 1..Len(ledger.unlocking) : ledger.unlocking[i].era <= CurrentEra
         /\ ledger.total_ring = SumValues(OfKind(ledger.unlocking, "Ring"))
         /\ ledger.total_kton = SumValues(OfKind(ledger.unlocking, "Kton")) ) =>
       /\ stash \notin DOMAIN after.Bonded
       /\ c \notin DOMAIN after.Ledger
       /\ stash \notin DOMAIN after.Payee
       /\ stash \notin DOMAIN after.Validators
       /\ stash \notin DOMAIN after.Nominators

(* n session endings that each begin a new era (start_session - 1 is a multiple
   of SessionsPerEra). *)
RECURSIVE advance_eras(_, _)
advance_eras(st, n) ==
  IF n = 0 THEN st
  ELSE advance_eras(on_session_ending(st, 1, FALSE, CHOOSE e \in elections(st) : TRUE, 0), n - 1)

(* bond(Ring(v), 0 months), unbond(Ring(v)), BondingDuration new eras,
   withdraw_unbonded, called one after the other from st. *)
RoundTrip(st, stash, controller, v) ==
  LET b == bond(st, stash, controller, Ring(v), "Stash", 0)
      u == unbond(b.st, controller, Ring(v))
      w == withdraw_unbonded(advance_eras(u.st, BondingDuration), controller)
  IN [st |-> w.st, ok |-> b.ret = "Ok" /\ u.ret = "Ok" /\ w.ret = "Ok"]

RoundTripStarts(stash, controller, v) ==
  /\ stash \notin DOMAIN Bonded
  /\ controller \notin DOMAIN Ledger
  /\ ringFree[stash] >= v

(* C13: for an unbonded stash with free Ring >= v, after bond(Ring(v), 0 months),
   unbond(Ring(v)), BondingDuration new eras and withdraw_unbonded the stash's free
   Ring and RingPool are what they were at the start, and the staking lock that is
   left on the stash has amount zero. *)
C13_RoundTrip ==
  \A stash \in Accounts, controller \in Accounts, v \in Values :
    RoundTripStarts(stash, controller, v) =>
      LET rt == RoundTrip(State, stash, controller, v)
      IN /\ rt.ok
         /\ rt.st.ringFree[stash] = ringFree[stash]
         /\ rt.st.RingPool = RingPool
         /\ LockAmount(rt.st.ringLock, stash) = 0

(* C13 as stated: after the round trip no staking lock is registered on the stash. *)
C13_RoundTripNoLock ==
  \A stash \in Accounts, controller \in Accounts, v \in Values :
    RoundTripStarts(stash, controller, v) =>
      LET rt == RoundTrip(State, stash, controller, v)
      IN /\ rt.ok
         /\ rt.st.ringFree[stash] = ringFree[stash]
         /\ rt.st.RingPool = RingPool
         /\ stash \notin DOMAIN rt.st.ringLock

(* A stash that has gone the round trip: its ledger is empty again, BondingDuration
   eras have passed, its free Ring was never slashed, its lock is registered at 0. *)
C13_Witness ==
  \E c \in DOMAIN Ledger :
    /\ Ledger[c].total_ring = 0
    /\ Ledger[c].total_kton = 0
    /\ Ledger[c].unlocking = <<>>
    /\ CurrentEra >= BondingDuration
    /\ ~RingWasSlashed
    /\ Ledger[c].stash \in DOMAIN ringLock
    /\ ringLock[Ledger[c].stash] = 0

(* C14: after claim_mature_deposits(controller) at time now the stored ledger holds
   no deposit item with expire_time <= now, active_deposit_ring is lower by the
   summed value of the removed items, and active_ring, total_ring, RingPool and the
   items with expire_time > now are what they were. *)
C14_ClaimMatureDeposits ==
  \A c \in DOMAIN Ledger :
    LET before == Ledger[c]
        r == claim_mature_deposits(State, c)
        mature == SelectSeq(before.deposit_items, LAMBDA item : item.expire_time <= now)
        young == SelectSeq(before.deposit_items, LAMBDA item : item.expire_time > now)
    IN /\ c \in DOMAIN r.st.Ledger
       /\ r.st.Ledger[c].deposit_items = young
       /\ r.st.Ledger[c].active_deposit_ring = before.active_deposit_ring - SumValues(mature)
       /\ r.st.Ledger[c].active_ring = before.active_ring
       /\ r.st.Ledger[c].total_ring = before.total_ring
       /\ r.st.RingPool = RingPool

(* C15: after a successful deposit_extra(controller, v, months) with 3 <= months <= 36
   the stored ledger has active_deposit_ring higher by x = min(v, active_ring -
   active_deposit_ring) and one new deposit item {x, now, now + months *
   MONTH_IN_SECONDS}, with active_ring, total_ring and RingPool unchanged; Kton is
   minted to the stash only together with the stored item. *)
C15_DepositExtra ==
  \A c \in DOMAIN Ledger, v \in Values, months \in {3, 36} :
    LET before == Ledger[c]
        r == deposit_extra(State, c, v, months)
        x == Min(v, before.active_ring - before.active_deposit_ring)
        item == [value |-> x, start_time |-> now,
                 expire_time |-> now + months * MONTH_IN_SECONDS]
    IN r.ret = "Ok" =>
         /\ c \in DOMAIN r.st.Ledger
         /\ r.st.Ledger[c].active_deposit_ring = before.active_deposit_ring + x
         /\ r.st.Ledger[c].deposit_items = Append(before.deposit_items, item)
         /\ r.st.Ledger[c].active_ring = before.active_ring
         /\ r.st.Ledger[c].total_ring = before.total_ring
         /\ r.st.RingPool = RingPool
         /\ r.st.ktonFree # ktonFree =>
              r.st.Ledger[c].deposit_items # before.deposit_items

(* C16: claim_deposits_with_punish(controller, expire_time) with expire_time > now:
   an item with that expire_time whose penalty the stash's free Kton admits costs
   the stash the penalty and leaves the stored ledger, active_deposit_ring going
   down by its value; an item whose penalty is not admitted changes neither the
   Kton balance nor the ledger.  No penalty is taken while the item stays stored. *)
C16_ClaimWithPunish ==
  \A c \in DOMAIN Ledger, expire_time \in ExpireTimes :
    expire_time > now =>
      LET before == Ledger[c]
          stash == before.stash
          r == claim_deposits_with_punish(State, c, expire_time)
          Claimed(items) == SelectSeq(items, LAMBDA item : item.expire_time = expire_time)
          taken == ktonFree[stash] - r.st.ktonFree[stash]
      IN /\ c \in DOMAIN r.st.Ledger
         /\ LET after == r.st.Ledger[c]
                removed == SumValues(Claimed(before.deposit_items))
                             - SumValues(Claimed(after.deposit_items))
            IN /\ taken > 0 =>
                    Len(Claimed(after.deposit_items)) < Len(Claimed(before.deposit_items))
               /\ after.active_deposit_ring = before.active_deposit_ring - removed
               /\ Len(Claimed(before.deposit_items)) = 1 =>
                    LET penalty == kton_punish(Claimed(before.deposit_items)[1],
                                               expire_time, now)
                    IN IF kton_can_withdraw(State, stash, penalty)
                       THEN taken = penalty /\ Claimed(after.deposit_items) = <<>>
                       ELSE taken = 0 /\ after = before

(* The call left the deposits of the ledger and all Kton balances as they were. *)
NoDeposit(before, r, controller) ==
  /\ r.st.Ledger[controller].deposit_items = before.deposit_items
  /\ r.st.Ledger[controller].active_deposit_ring = before.active_deposit_ring
  /\ r.st.ktonFree = ktonFree

(* What a call that bonds Ring for promise_month months does to the deposits of a
   ledger and to the stash's Kton: below 3 months nothing, from 3 months on one new
   item of the bonded value and the Kton return minted. *)
DepositMade(before, r, controller, bonded, promise_month) ==
  LET after == r.st.Ledger[controller]
      stash == before.stash
  IN IF promise_month >= 3
     THEN /\ after.deposit_items =
               Append(before.deposit_items,
                      [value |-> bonded, start_time |-> now,
                       expire_time |-> now + promise_month * MONTH_IN_SECONDS])
          /\ after.active_deposit_ring = before.active_deposit_ring + bonded
          /\ r.st.ktonFree =
               [ktonFree EXCEPT ![stash] = @ + compute_kton_return(bonded, promise_month)]
     ELSE NoDeposit(before, r, controller)

(* C17: bond and bond_extra create a deposit item and mint Kton exactly when the
   value is Ring and months >= 3; with 0, 1 or 2 months, or with Kton, the ledger
   gains no deposit item, active_deposit_ring stays and no Kton is minted; with
   months > 36 bond, bond_extra and deposit_extra answer an error and change
   nothing. *)
C17_DepositOnlyWhenPromised ==
  \A origin \in Accounts, value \in StakingBalances, promise_month \in PromiseMonths :
    /\ \A controller \in Accounts :
         LET r == bond(State, origin, controller, value, "Stash", promise_month)
         IN IF promise_month > 36 THEN r.ret = "Err" /\ r.st = State
            ELSE r.ret = "Ok" =>
                   IF value.kind = "Ring"
                   THEN DepositMade(DefaultLedger(origin), r, controller,
                                    r.st.Ledger[controller].total_ring, promise_month)
                   ELSE NoDeposit(DefaultLedger(origin), r, controller)
    /\ LET r == bond_extra(State, origin, value, promise_month)
       IN IF promise_month > 36 THEN r.ret = "Err" /\ r.st = State
          ELSE r.ret = "Ok" =>
                 LET controller == Bonded[origin]
                     before == Ledger[controller]
                 IN IF value.kind = "Ring"
                    THEN DepositMade(before, r, controller,
                                     r.st.Ledger[controller].total_ring - before.total_ring,
                                     promise_month)
                    ELSE NoDeposit(before, r, controller)
    /\ promise_month > 36 =>
         LET r == deposit_extra(State, origin, value.value, promise_month)
         IN r.ret = "Err" /\ r.st = State

(* One stash has bonded Ring with a promise and holds the item and the minted Kton,
   another has bonded Ring without a promise and holds no item. *)
C17_Witness ==
  \E c1 \in DOMAIN Ledger, c2 \in DOMAIN Ledger :
    /\ Len(Ledger[c1].deposit_items) = 1
    /\ Ledger[c1].deposit_items[1].value > 0
    /\ Ledger[c1].active_deposit_ring = Ledger[c1].deposit_items[1].value
    /\ ktonFree[Ledger[c1].stash] > InitKton
    /\ Ledger[c2].active_ring > 0
    /\ Ledger[c2].deposit_items = <<>>
    /\ Ledger[c2].active_deposit_ring = 0
    /\ ktonFree[Ledger[c2].stash] = InitKton

(***************************************************************************)
(* Properties of the era / session controller.                             *)
(***************************************************************************)
OnBoundary(start_session) == (start_session - 1) % SessionsPerEra = 0

(* C18: on_session_ending(start_session) begins a new era if the forcing mode is
   ForceNew or ForceAlways or if (start_session - 1) mod SessionsPerEra = 0, and in
   every other case leaves the storage (CurrentEra, Stakers, ..) as it was. *)
C18_SessionEndingBeginsEra ==
  \A start_session \in 1..MaxSession, take \in BOOLEAN :
    LET after == on_session_ending(State, start_session, take, None, 0)
    IN IF ForceEra \in {"ForceNew", "ForceAlways"} \/ OnBoundary(start_session)
       THEN after.CurrentEra = CurrentEra + 1
       ELSE after = State

(* C19: a session ending that begins a new era while the forcing mode is ForceNew
   leaves the mode NotForcing, and the session ending after it begins a new era
   only on the SessionsPerEra boundary. *)
C19_ForceNewIsUsedUp ==
  \A start_session \in 1..MaxSession, take \in BOOLEAN :
    LET after == on_session_ending(State, start_session, take, None, 0)
    IN (ForceEra = "ForceNew" /\ after.CurrentEra = CurrentEra + 1) =>
         /\ after.ForceEra = "NotForcing"
         /\ \A next_session \in 1..MaxSession, next_take \in BOOLEAN :
              on_session_ending(after, next_session, next_take, None, 0).CurrentEra
                  = after.CurrentEra + 1
                => OnBoundary(next_session)

(* C20: while the forcing mode is ForceNone no on_session_ending call begins a new
   era, whatever the session index: the storage stays as it was. *)
C20_ForceNoneSuppresses ==
  \A start_session \in 1..MaxSession, take \in BOOLEAN :
    ForceEra = "ForceNone" =>
      on_session_ending(State, start_session, take, None, 0) = State

(* C21: after the root origin calls force_new_era the forcing mode is ForceNew and
   the next session ending begins a new era whatever the session index; any other
   origin is answered with an error and changes nothing. *)
C21_ForceNewEra ==
  \A origin \in Origins :
    LET r == force_new_era(State, origin)
    IN IF origin = "Root"
       THEN /\ r.ret = "Ok"
            /\ r.st.ForceEra = "ForceNew"
            /\ \A start_session \in 1..MaxSession, take \in BOOLEAN :
                 on_session_ending(r.st, start_session, take, None, 0).CurrentEra
                   = CurrentEra + 1
       ELSE r.ret = "Err" /\ r.st = State

(* C22: when fewer than max(MinimumValidatorCount, 1) candidates are in Validators,
   the election answers None, and select_validators (and so the session ending
   that begins the era) leaves CurrentElected, every Stakers entry and SlotStake
   as they were. *)
C22_NoneKeepsElected ==
  Cardinality(DOMAIN Validators) < Max(MinimumValidatorCount, 1) =>
    \A maybe_elected_set \in elections(State) :
      /\ maybe_elected_set = None
      /\ LET st == select_validators(State, maybe_elected_set)
         IN st.CurrentElected = CurrentElected /\ st.Stakers = Stakers
            /\ st.SlotStake = SlotStake
      /\ \A taken \in BOOLEAN :
           LET st == on_session_ending(State, 1, taken, maybe_elected_set, 0)
           IN st.CurrentEra = CurrentEra + 1 /\ st.CurrentElected = CurrentElected
              /\ st.Stakers = Stakers /\ st.SlotStake = SlotStake

(* An elected set with its exposures and slot stake, while candidates are left
   in Validators but fewer than the minimum. *)
C22_Witness ==
  /\ CurrentElected # <<>> /\ DOMAIN Stakers # {} /\ SlotStake > 0
  /\ DOMAIN Validators # {}
  /\ Cardinality(DOMAIN Validators) < Max(MinimumValidatorCount, 1)

(* C23: after every successful election SlotStake is the least Stakers[w].total
   over the winners w in CurrentElected: in the storage as it stands once a set
   has been elected, and after select_validators with any answer Some(..) of
   the election. *)
IsSlotStake(st) ==
  LET winners == { st.CurrentElected[i] : i \in 1..Len(st.CurrentElected) }
  IN /\ winners \subseteq DOMAIN st.Stakers
     /\ \E w \in winners : st.Stakers[w].total = st.SlotStake
     /\ \A w \in winners : st.Stakers[w].total >= st.SlotStake

C23_SlotStakeIsMinimum ==
  /\ CurrentElected # <<>> => IsSlotStake(State)
  /\ \A maybe_elected_set \in elections(State) :
       maybe_elected_set.some =>
         LET st == select_validators(State, maybe_elected_set)
         IN st.CurrentElected = maybe_elected_set.winners /\ IsSlotStake(st)

(* Two winners with different totals have been elected. *)
C23_Witness ==
  /\ Len(CurrentElected) = 2
  /\ Stakers[CurrentElected[1]].total # Stakers[CurrentElected[2]].total
  /\ SlotStake = Min(Stakers[CurrentElected[1]].total, Stakers[CurrentElected[2]].total)

(* The storage slashing works on: ledgers, pools, locks, balances and the slash
   journal of the era. *)
Slashable(st) ==
  [Ledger |-> st.Ledger, RingPool |-> st.RingPool, KtonPool |-> st.KtonPool,
   ringLock |-> st.ringLock, ktonLock |-> st.ktonLock,
   ringFree |-> st.ringFree, ktonFree |-> st.ktonFree,
   journal |-> era_slash_journal(st, st.CurrentEra)]

(* C24 (as amended): an offence reported with slash_fraction = 0 slashes nothing:
   ledgers, pools, locks, balances and the era's slash journal are as before.
   It is a no-op for an invulnerable offender and for one that is not in
   Validators; an offender in Validators is taken out of Validators and the
   forcing mode becomes ForceNew unless it was ForceNew or ForceAlways. *)
C24_ZeroFractionSlashesNothing ==
  \A stash \in Accounts, disable \in BOOLEAN :
    \A exposure \in Exposures \cup {stakers(State, stash)} :
      \A st \in on_offence(State, stash, exposure, 0, disable) :
        /\ Slashable(st) = Slashable(State)
        /\ IF stash \in Invulnerables \/ stash \notin DOMAIN Validators
           THEN st = State
           ELSE st = [State EXCEPT
                        !.Validators = Del(@, stash),
                        !.ForceEra = IF @ \in {"ForceNew", "ForceAlways"}
                                     THEN @ ELSE "ForceNew"]

(* C24 (as stated): an offence reported with slash_fraction = 0 is a no-op. *)
C24_ZeroFractionNoOp ==
  \A stash \in Accounts, disable \in BOOLEAN :
    \A exposure \in Exposures \cup {stakers(State, stash)} :
      \A st \in on_offence(State, stash, exposure, 0, disable) : st = State

(* An elected validator with an exposure that is still in Validators and can be
   reported, and one that is not in Validators any more. *)
C24_Witness ==
  /\ \E stash \in DOMAIN Validators \ Invulnerables :
       stakers(State, stash).total > 0
  /\ \E stash \in Accounts \ DOMAIN Validators : stakers(State, stash).total > 0

(* C25: slash_individual with any slash ratio leaves the unlocking list of the
   slashed ledger as it was; what leaves total_ring (total_kton) is what leaves
   active_ring (active_kton), so never more than the active amount; with a ratio
   of one the ledger ends with active_ring = 0, active_deposit_ring = 0, no
   deposit items and active_kton = 0. *)
C25_SlashSparesUnlocking ==
  \A stash \in DOMAIN Bonded, slash_ratio \in Fractions :
    Bonded[stash] \in DOMAIN Ledger =>
      LET c == Bonded[stash]
          L == Ledger[c]
      IN \A st \in slash_individual(State, stash, slash_ratio) :
           c \in DOMAIN st.Ledger =>
             LET L2 == st.Ledger[c]
              IN /\ L2.unlocking = L.unlocking
                 /\ L2.active_ring >= 0 /\ L2.active_kton >= 0
                 /\ L.total_ring - L2.total_ring = L.active_ring - L2.active_ring
                 /\ L.total_kton - L2.total_kton = L.active_kton - L2.active_kton
                 /\ L.active_ring - L2.active_ring <= L.active_ring
                 /\ L.active_kton - L2.active_kton <= L.active_kton
                 /\ L.active_ring - L2.active_ring
                      <= PerbillMul(slash_ratio, L.total_ring)
                 /\ slash_ratio = Billion =>
                      /\ L2.active_ring = 0 /\ L2.active_deposit_ring = 0
                      /\ L2.deposit_items = <<>> /\ L2.active_kton = 0

(* C26: an offence with fraction f on validator V reported with exposure E
   slashes along E: only V and the nominators in E.others lose stake; a stash
   that exposed nothing to V in E keeps its ledger and its balance. *)
Exposed(exposure) == { exposure.others[i].who : i \in 1..Len(exposure.others) }

C26_SlashFollowsExposure ==
  \A stash \in Accounts, slash_fraction \in Fractions, disable \in BOOLEAN :
    \A exposure \in Exposures \cup {stakers(State, stash)} :
      \A st \in on_offence(State, stash, exposure, slash_fraction, disable) :
        \A n \in DOMAIN Bonded \ ({stash} \cup Exposed(exposure)) :
          Bonded[n] \in DOMAIN Ledger =>
            /\ Bonded[n] \in DOMAIN st.Ledger
            /\ st.Ledger[Bonded[n]] = Ledger[Bonded[n]]
            /\ st.ringFree[n] = ringFree[n]

(* C27: CurrentEraStartSessionIndex is the session at which the current era
   started: after a session ending that begins an era it is that start_session,
   and an offence of an earlier session reported afterwards is discarded and
   changes no staking state. *)
C27_OldOffenceDiscarded ==
  \A start_session \in 1..MaxSession, taken \in BOOLEAN :
    \A maybe_elected_set \in elections(State) :
      LET st == on_session_ending(State, start_session, taken, maybe_elected_set, 0)
      IN st.CurrentEra = CurrentEra + 1 =>
           /\ st.CurrentEraStartSessionIndex = start_session
           /\ \A offence_session \in 0..(start_session - 1), stash \in Accounts,
                 slash_fraction \in Fractions, disable \in BOOLEAN :
                \A exposure \in Exposures \cup {stakers(State, stash)} :
                  report_offence(st, offence_session, stash, exposure,
                                 slash_fraction, disable) = {st}

(* C28: on_offence on an offender that is in Validators and not invulnerable
   takes it out of Validators and leaves the forcing mode ForceNew or
   ForceAlways (ForceAlways stays, ensure_new_era twice is ensure_new_era once),
   so that the next session ending begins a new era whatever the session index;
   on_offence on an invulnerable offender changes nothing. *)
C28_OffenceEnsuresNewEra ==
  \A stash \in Accounts, slash_fraction \in Fractions, disable \in BOOLEAN :
    \A exposure \in Exposures \cup {stakers(State, stash)} :
      \A st \in on_offence(State, stash, exposure, slash_fraction, disable) :
        /\ stash \in Invulnerables => st = State
        /\ (stash \in DOMAIN Validators /\ stash \notin Invulnerables) =>
             /\ stash \notin DOMAIN st.Validators
             /\ st.ForceEra \in {"ForceNew", "ForceAlways"}
             /\ ForceEra = "ForceAlways" => st.ForceEra = "ForceAlways"
             /\ ensure_new_era(ensure_new_era(State)) = ensure_new_era(State)
             /\ \A start_session \in 1..MaxSession, taken \in BOOLEAN :
                  \A maybe_elected_set \in elections(st) :
                    on_session_ending(st, start_session, taken,
                                      maybe_elected_set, 0).CurrentEra = st.CurrentEra + 1

(* C29: slash_helper with Ring(r) takes min(r, normal) from the normal Ring
   (active_ring - active_deposit_ring) and only the rest, up to active_ring, from
   the deposit items; active_ring, total_ring and RingPool fall by all that is
   taken, active_deposit_ring and the items' values by what is taken from the
   items; no item is touched while normal Ring is left; an item that reaches zero
   is dropped; and no item loses value while an item that expires later still has
   some.  The items left are matched (by keeps) with the items they were. *)
ItemsFollow(before, after, keeps) ==
  /\ \A i, j \in 1..Len(after) : keeps[i] = keeps[j] => i = j
  /\ \A i \in 1..Len(after) :
       /\ after[i].start_time = before[keeps[i]].start_time
       /\ after[i].expire_time = before[keeps[i]].expire_time
       /\ after[i].value <= before[keeps[i]].value
       /\ after[i].value = 0 => before[keeps[i]].value = 0
  /\ \A early, late \in 1..Len(before) :
       LET Kept(k) == \E i \in 1..Len(after) : keeps[i] = k
           Lost(k) == IF Kept(k)
                      THEN \E i \in 1..Len(after) :
                             keeps[i] = k /\ after[i].value < before[k].value
                      ELSE before[k].value > 0
       IN (before[late].expire_time > before[early].expire_time /\ Lost(early)) =>
            (before[late].value = 0 \/ ~Kept(late))

C29_SlashOrder ==
  \A c \in DOMAIN Ledger, r \in SlashAmounts :
    LET L == Ledger[c]
        normal == L.active_ring - L.active_deposit_ring
        from_normal == Min(r, normal)
        taken == Min(r, L.active_ring)
    IN \A h \in slash_helper(State, c, L, Ring(r)) :
         LET L2 == h.st.Ledger[c]
         IN /\ h.ring = taken
            /\ L2.active_ring = L.active_ring - taken
            /\ L2.total_ring = L.total_ring - taken
            /\ h.st.RingPool = RingPool - taken
            /\ L2.active_deposit_ring = L.active_deposit_ring - (taken - from_normal)
            /\ SumValues(L2.deposit_items)
                 = SumValues(L.deposit_items) - (taken - from_normal)
            /\ L2.active_ring - L2.active_deposit_ring = normal - from_normal
            /\ L2.active_ring - L2.active_deposit_ring > 0 =>
                 L2.deposit_items = L.deposit_items
            /\ \E keeps \in [1..Len(L2.deposit_items) -> 1..Len(L.deposit_items)] :
                 ItemsFollow(L.deposit_items, L2.deposit_items, keeps)

(* A slash has been applied, and the ledger still has normal Ring and two
   deposit items of different expire_time that both have value. *)
C29_Witness ==
  /\ steps > 0
  /\ \E c \in DOMAIN Ledger :
       /\ Ledger[c].active_ring > Ledger[c].active_deposit_ring
       /\ \E i, j \in 1..Len(Ledger[c].deposit_items) :
            /\ Ledger[c].deposit_items[i].expire_time
                 > Ledger[c].deposit_items[j].expire_time
            /\ Ledger[c].deposit_items[i].value > 0
            /\ Ledger[c].deposit_items[j].value > 0

(* C30: on_offence extends the slash journal of the current era by one entry
   for the offender it slashes (who is the offender's stash), and by nothing when
   it slashes nobody (an invulnerable offender, or an amount of zero). *)
C30_JournalRecordsSlash ==
  \A stash \in Accounts, slash_fraction \in Fractions, disable \in BOOLEAN :
    \A exposure \in Exposures \cup {stakers(State, stash)} :
      \A st \in on_offence(State, stash, exposure, slash_fraction, disable) :
        LET before == era_slash_journal(State, CurrentEra)
            after == era_slash_journal(st, CurrentEra)
        IN IF stash \in Invulnerables \/ PerbillMul(slash_fraction, exposure.total) = 0
           THEN after = before
           ELSE /\ Len(after) = Len(before) + 1
                /\ SubSeq(after, 1, Len(before)) = before
                /\ after[Len(after)].who = stash

(***************************************************************************)
(* Properties of eras, epochs and rewards.                                 *)
(***************************************************************************)

(* What new_era does to the era and epoch counters and to the era reward:
   schedule_put says what CurrentEraTotalReward is after a new epoch. *)
EraStep(st, next_era_reward, put) ==
  /\ st.CurrentEra = CurrentEra + 1
  /\ IF st.CurrentEra % ErasPerEpoch = 0
     THEN /\ st.EpochIndex = EpochIndex + 1
          /\ st.CurrentEraTotalReward = put
     ELSE /\ st.EpochIndex = EpochIndex
          /\ st.CurrentEraTotalReward = CurrentEraTotalReward

(* No step lowers CurrentEra, and EpochIndex and CurrentEraTotalReward change
   only in a step that begins an era that is a multiple of ErasPerEpoch. *)
CountersMove ==
  /\ CurrentEra' >= CurrentEra
  /\ (EpochIndex' # EpochIndex \/ CurrentEraTotalReward' # CurrentEraTotalReward)
       => /\ CurrentEra' = CurrentEra + 1
          /\ CurrentEra' % ErasPerEpoch = 0
          /\ EpochIndex' = EpochIndex + 1

(* C31: every new era adds exactly 1 to CurrentEra, also when the election
   answers None, and CurrentEra never decreases; EpochIndex grows by 1 in exactly
   the new eras whose new CurrentEra is a multiple of ErasPerEpoch, and there
   CurrentEraTotalReward becomes the answer of the reward schedule if that answer
   is not zero and stays as it was if it is zero; in every other new era
   EpochIndex and CurrentEraTotalReward stay as they were. *)
C31_EraAndEpoch ==
  /\ [](\A maybe_elected_set \in elections(State) \cup {None},
           next_era_reward \in EraRewards :
          EraStep(new_era(State, maybe_elected_set, next_era_reward), next_era_reward,
                  IF next_era_reward # 0 THEN next_era_reward
                  ELSE CurrentEraTotalReward))
  /\ [][CountersMove]_vars

(* The first epoch has begun and an era reward is in force. *)
C31_Witness ==
  /\ EpochIndex = 1
  /\ CurrentEra = ErasPerEpoch
  /\ CurrentEraTotalReward = EraReward

(* C31 as first stated: in a new era that is a multiple of ErasPerEpoch
   CurrentEraTotalReward is what the reward schedule answers. *)
C31_RewardRecomputed ==
  \A maybe_elected_set \in elections(State) \cup {None}, next_era_reward \in EraRewards :
    EraStep(new_era(State, maybe_elected_set, next_era_reward), next_era_reward,
            next_era_reward)

(* The stashes of the elected set of st. *)
Elected(st) == { st.CurrentElected[i] : i \in 1..Len(st.CurrentElected) }

(* Stakers holds an exposure for exactly the elected, and each exposure's total
   is its own plus the values of its others. *)
ExposuresAddUp(st) ==
  /\ DOMAIN st.Stakers = Elected(st)
  /\ \A w \in Elected(st) :
       st.Stakers[w].total = st.Stakers[w].own + SumValues(st.Stakers[w].others)

(* C32: after every successful election each winner w has a stored exposure with
   total = own + the sum of the values of others and own = power_of(w), and
   Stakers holds an exposure for exactly the stashes of CurrentElected: the
   exposures of the elected of the era before that lost are removed.  The
   exposures add up in every reachable state as well. *)
C32_ExposuresOfTheElected ==
  /\ ExposuresAddUp(State)
  /\ \A maybe_elected_set \in elections(State) :
       maybe_elected_set.some =>
         LET st == select_validators(State, maybe_elected_set)
         IN /\ st.CurrentElected = maybe_elected_set.winners
            /\ ExposuresAddUp(st)
            /\ \A w \in Elected(st) : st.Stakers[w].own = power_of(State, w)

(* A validator has been elected with a nominator behind it, and the election
   that can follow elects somebody else in its place. *)
C32_Witness ==
  /\ \E w \in Elected(State) : Stakers[w].others # <<>>
  /\ \E maybe_elected_set \in elections(State) :
       /\ maybe_elected_set.some
       /\ \E w \in Elected(State) :
            w \notin { maybe_elected_set.winners[i] :
                         i \in 1..Len(maybe_elected_set.winners) }

RECURSIVE SumFn(_, _)
SumFn(f, n) == IF n = 0 THEN 0 ELSE f[n] + SumFn(f, n - 1)

(* The account the payout for stash is sent to, if there is one. *)
Dest(stash) ==
  IF payee(State, stash) = "Controller"
  THEN IF stash \in DOMAIN Bonded THEN {Bonded[stash]} ELSE {}
  ELSE {stash}

(* The allotment of each elected validator out of the era reward R. *)
Allotment == era_reward(State) \div Max(Len(CurrentElected), 1)

(* What is taken off the table for validator v, and the share of the rest that
   falls to the exposed value x of the exposure of v. *)
OffTheTable(v) == PerbillMul(validators(State, v).validator_payment_ratio, Allotment)
Share(v, x) ==
  PerbillMul(from_rational_approximation(x, Max(stakers(State, v).total, 1)),
             Allotment - OffTheTable(v))

(* What the payout of the era owes to the account a: for every elected validator
   whose payee a is, what is off the table and the share of its own, and for
   every nominator of an elected validator whose payee a is, its share. *)
Due(a) ==
  SumFn([i \in 1..Len(CurrentElected) |->
           LET v == CurrentElected[i]
               others == stakers(State, v).others
           IN (IF a \in Dest(v) THEN OffTheTable(v) + Share(v, stakers(State, v).own)
               ELSE 0)
              + SumFn([j \in 1..Len(others) |->
                         IF a \in Dest(others[j].who) THEN Share(v, others[j].value)
                         ELSE 0],
                      Len(others))],
        Len(CurrentElected))

(* C33: in a new era with the reward R = session_reward * CurrentEraTotalReward
   > 0 every elected validator is allotted R divided by the number of the
   elected; within an allotment r the payee of the validator is paid
   validator_payment_ratio * r and the own/total share of the rest, and the payee
   of each nominator its value/total share of the rest; all that is paid in
   the era is at most R; a deposit that fails (the account does not exist) is
   discarded and the era begins all the same. *)
C33_RewardSplit ==
  era_reward(State) > 0 =>
    /\ \A a \in Accounts :
         payout(State).ringFree[a] = ringFree[a] + IF ringFree[a] = 0 THEN 0 ELSE Due(a)
    /\ SumOver(payout(State).ringFree, Accounts) - SumOver(ringFree, Accounts)
         <= era_reward(State)
    /\ SumFn([i \in 1..Len(CurrentElected) |-> Allotment], Len(CurrentElected))
         <= era_reward(State)
    /\ \A maybe_elected_set \in elections(State) \cup {None},
          next_era_reward \in EraRewards :
         LET st == new_era(State, maybe_elected_set, next_era_reward)
         IN /\ st.ringFree = payout(State).ringFree
            /\ st.CurrentEra = CurrentEra + 1

(* An era has paid: there is more free Ring than at genesis; the elected
   validator takes half of its allotment off the table and shares the rest with
   a nominator, and the next era pays again. *)
C33_Witness ==
  /\ SumOver(ringFree, Accounts) > Cardinality(Accounts) * InitRing
  /\ era_reward(State) > 0
  /\ \E v \in Elected(State) :
       /\ Stakers[v].others # <<>>
       /\ validators(State, v).validator_payment_ratio = Billion \div 2
       /\ \E j \in 1..Len(Stakers[v].others) : Share(v, Stakers[v].others[j].value) > 0

(* The reward points of the account who in the storage st: those at its place
   among the elected. *)
Points(st, who) ==
  LET places == { k \in 1..Len(st.CurrentElected) : st.CurrentElected[k] = who }
      first == CHOOSE k \in places : \A m \in places : k <= m
  IN IF places # {} /\ first <= Len(st.CurrentEraPointsEarned.individual)
     THEN st.CurrentEraPointsEarned.individual[first] ELSE 0

(* C34: each authored block credits 20 reward points to its author, each newly
   referenced uncle 2 points to the block author and 1 point to the author of the
   uncle, and points are added for the accounts in CurrentElected only: a
   reference to an account that is not elected changes CurrentEraPointsEarned
   for nobody. *)
C34_AuthorshipPoints ==
  /\ \A author \in Accounts :
       LET st == note_author(State, author)
       IN \A a \in Accounts :
            Points(st, a) = Points(State, a)
                            + IF a = author /\ a \in Elected(State) THEN 20 ELSE 0
  /\ \A block_author \in Accounts, author \in Accounts :
       LET st == note_uncle(State, block_author, author)
       IN \A a \in Accounts :
            Points(st, a) = Points(State, a)
                            + (IF a = block_author /\ a \in Elected(State) THEN 2 ELSE 0)
                            + (IF a = author /\ a \in Elected(State) THEN 1 ELSE 0)
  /\ \A who \in Accounts \ Elected(State), points \in {1, 2, 20} :
       reward_by_ids(State, <<<<who, points>>>>) = State

(* C35: in every reachable state every key of Validators and of Nominators is a
   bonded stash, that is Bonded[stash] exists and its controller has a ledger;
   kill_stash removes the Bonded, Ledger, Payee, Validators and Nominators
   entries of the stash together, so that a killed stash is neither a candidate
   nor a voter of a later election. *)
C35_RolesAreBonded ==
  /\ \A stash \in DOMAIN Validators \cup DOMAIN Nominators :
       stash \in DOMAIN Bonded /\ Bonded[stash] \in DOMAIN Ledger
  /\ \A stash \in DOMAIN Bonded :
       LET st == kill_stash(State, stash)
       IN /\ stash \notin DOMAIN st.Bonded
          /\ Bonded[stash] \notin DOMAIN st.Ledger
          /\ stash \notin DOMAIN st.Payee
          /\ stash \notin DOMAIN st.Validators \cup DOMAIN st.Nominators
          /\ \A maybe_elected_set \in elections(st) :
               maybe_elected_set.some =>
                 /\ \A i \in 1..Len(maybe_elected_set.winners) :
                      maybe_elected_set.winners[i] # stash
                 /\ \A i \in 1..Len(maybe_elected_set.assignments) :
                      maybe_elected_set.assignments[i].who # stash

====
